---- MODULE Spec2Model ----
(***************************************************************************)
(* Model of the map generation pipeline of ofws_core:                      *)
(*   - Map2d / Attribute (data/map/mod.rs, data/map/attribute.rs)          *)
(*   - the generation steps and their portable (name based) descriptions   *)
(*     (data/map/generation/...)                                           *)
(*   - MapGeneration: validation (try_from), serialisation (from) and      *)
(*     generate()                                                          *)
(* Attribute ids are 0-based as in the source; sequences are 1-based, so   *)
(* the attribute with id k is attributes[k + 1].                           *)
(***************************************************************************)
EXTENDS Integers, Sequences, FiniteSets, TLC

(***************************************************************************)
(* Bounds of the model                                                     *)
(***************************************************************************)
\* longest step list of a portable pipeline description
MaxSteps == 4
\* number of generate() calls on one MapGeneration
MaxRuns == 2
\* width of the maps
MapWidth == 2
\* height of the maps
MapHeight == 1
\* largest width and height of the lookup table of a clusterer
MaxClusters == 3

Names == {"a", "b"}
ByteSamples == {10, 255}

U8Max == 255
I32Max == 2147483647

Min(a, b) == IF a < b THEN a ELSE b
Max(a, b) == IF a < b THEN b ELSE a
Abs(a) == IF a < 0 THEN 0 - a ELSE a

RECURSIVE Pow2(_)
Pow2(n) == IF n = 0 THEN 1 ELSE 2 * Pow2(n - 1)

RECURSIVE BitLen(_)
BitLen(n) == IF n = 0 THEN 0 ELSE 1 + BitLen(n \div 2)

(***************************************************************************)
(* IEEE 754 binary32 (Rust f32) arithmetic, round to nearest, ties to even.*)
(* A value is [sign, m, e] and stands for sign * m * 2^e with              *)
(* 2^23 <= m < 2^24, or m = 0 for zero.  Every intermediate integer stays  *)
(* below 2^31.                                                             *)
(***************************************************************************)
F32Zero == [sign |-> 1, m |-> 0, e |-> 0]

\* n / 2^s rounded to the nearest integer, ties to even
RoundShift(n, s) ==
    IF s = 0 THEN n
    ELSE LET q == n \div Pow2(s)
             r == n % Pow2(s)
             half == Pow2(s - 1)
         IN IF r > half \/ (r = half /\ q % 2 = 1) THEN q + 1 ELSE q

\* the f32 nearest to sign * n * 2^e, for 0 <= n < 2^31
F32Normalise(sign, n, e) ==
    IF n = 0 THEN F32Zero
    ELSE LET bl == BitLen(n)
         IN IF bl <= 24
            THEN [sign |-> sign, m |-> n * Pow2(24 - bl), e |-> e - (24 - bl)]
            ELSE LET s == bl - 24
                     q == RoundShift(n, s)
                 IN IF q = Pow2(24)
                    THEN [sign |-> sign, m |-> Pow2(23), e |-> e + s + 1]
                    ELSE [sign |-> sign, m |-> q, e |-> e + s]

\* `i as f32` for an integer i
F32FromInt(i) == F32Normalise(IF i < 0 THEN -1 ELSE 1, Abs(i), 0)

\* x / (d as f32) for an integer 1 <= d < 128 (d is exactly representable)
F32DivInt(x, d) ==
    IF x.m = 0 THEN F32Zero
    ELSE LET t0 == BitLen(d)
             t == IF (x.m * Pow2(t0)) \div d < Pow2(24) THEN t0 ELSE t0 - 1
             n == x.m * Pow2(t)
             q == n \div d
             r == n % d
             up == 2 * r > d \/ (2 * r = d /\ q % 2 = 1)
             q1 == IF up THEN q + 1 ELSE q
         IN IF q1 = Pow2(24)
            THEN [sign |-> x.sign, m |-> Pow2(23), e |-> x.e - t + 1]
            ELSE [sign |-> x.sign, m |-> q1, e |-> x.e - t]

\* x / (d as f32) for an integer 1 <= d <= 255: the quotient of m * 2^t by d
\* is put together from the quotients of m and of the remainder, so that no
\* intermediate reaches 2^31
F32DivByte(x, d) ==
    IF x.m = 0 THEN F32Zero
    ELSE LET a == x.m \div d
             b == x.m % d
             Q(s) == a * Pow2(s) + (b * Pow2(s)) \div d
             t0 == BitLen(d)
             t == IF Q(t0) < Pow2(24) THEN t0 ELSE t0 - 1
             q == Q(t)
             r == (b * Pow2(t)) % d
             up == 2 * r > d \/ (2 * r = d /\ q % 2 = 1)
             q1 == IF up THEN q + 1 ELSE q
         IN IF q1 = Pow2(24)
            THEN [sign |-> x.sign, m |-> Pow2(23), e |-> x.e - t + 1]
            ELSE [sign |-> x.sign, m |-> q1, e |-> x.e - t]

\* x * (n as f32) for an integer 0 <= n <= 255 (n is exactly representable);
\* the 32 bit product m * n is split so that no intermediate reaches 2^31
F32MulInt(x, n) ==
    IF x.m = 0 \/ n = 0 THEN F32Zero
    ELSE LET bl == BitLen(n)
             Hi(s) == (x.m \div Pow2(s)) * n + ((x.m % Pow2(s)) * n) \div Pow2(s)
             Lo(s) == ((x.m % Pow2(s)) * n) % Pow2(s)
             s == IF Hi(bl - 1) < Pow2(24) THEN bl - 1 ELSE bl
             q == Hi(s)
             r == Lo(s)
             half == IF s = 0 THEN 1 ELSE Pow2(s - 1)
             up == s > 0 /\ (r > half \/ (r = half /\ q % 2 = 1))
             q1 == IF up THEN q + 1 ELSE q
         IN IF q1 = Pow2(24)
            THEN [sign |-> x.sign, m |-> Pow2(23), e |-> x.e + s + 1]
            ELSE [sign |-> x.sign, m |-> q1, e |-> x.e + s]

\* |a| >= |b|
F32AbsGeq(a, b) ==
    IF b.m = 0 THEN TRUE
    ELSE IF a.m = 0 THEN FALSE
    ELSE a.e > b.e \/ (a.e = b.e /\ a.m >= b.m)

\* a + b, computed with three extra bits (guard, round, sticky)
F32Add(a, b) ==
    LET x == IF F32AbsGeq(a, b) THEN a ELSE b
        y == IF F32AbsGeq(a, b) THEN b ELSE a
    IN IF y.m = 0 THEN x
       ELSE LET d == x.e - y.e
                A == x.m * 8
                full == IF d > 27 THEN 0 ELSE (y.m * 8) \div Pow2(d)
                sticky == IF d > 27 THEN TRUE ELSE (y.m * 8) % Pow2(d) # 0
                B == IF sticky /\ full % 2 = 0 THEN full + 1 ELSE full
                S == IF x.sign = y.sign THEN A + B ELSE A - B
            IN F32Normalise(x.sign, S, x.e - 3)

\* `x as u8`: truncates towards zero and saturates at 0 and 255
F32ToU8(x) ==
    IF x.m = 0 \/ x.sign < 0 THEN 0
    ELSE IF x.e >= 0 THEN U8Max
    ELSE IF 0 - x.e >= 24 THEN 0
    ELSE Min(x.m \div Pow2(0 - x.e), U8Max)

\* `x as i32`: truncates towards zero and saturates at the i32 range
F32ToI32(x) ==
    IF x.m = 0 THEN 0
    ELSE IF x.e >= 8 THEN x.sign * I32Max
    ELSE IF x.e >= 0 THEN x.sign * (x.m * Pow2(x.e))
    ELSE IF 0 - x.e >= 24 THEN 0
    ELSE x.sign * (x.m \div Pow2(0 - x.e))

(***************************************************************************)
(* Size2d                                                                  *)
(***************************************************************************)
Size2dNew(width, height) == [width |-> width, height |-> height]

get_area(size) == size.width * size.height

to_index(size, x, y) == y * size.width + x

\* coordinates outside the size wrap around instead
wrapping_to_index(size, x, y) == (y * size.width + x) % get_area(size)

\* coordinates outside the size are limited to the last column and row
saturating_to_index(size, x, y) ==
    Min(y, size.height - 1) * size.width + Min(x, size.width - 1)

\* the unchecked conversion of a point to its index (row after row)
to_index_risky(size, x, y) == y * size.width + x

(***************************************************************************)
(* Option<usize>: <<>> is None, <<id>> is Some(id)                         *)
(***************************************************************************)
None == <<>>
Some(id) == <<id>>

(***************************************************************************)
(* Attribute                                                               *)
(***************************************************************************)
\* the assert_eq! of Attribute::new fails
AttributeNewPanics(size, values) == get_area(size) # Len(values)

AttributeNew(name, size, values) ==
    [name |-> name, size |-> size, values |-> values]

\* an attribute filled with 0 instead of the default
AttributeDefaultValueZero(name, size, default) ==
    AttributeNew(name, size, [i \in 1..get_area(size) |-> 0])

AttributeDefaultValue(name, size, default) ==
    AttributeNew(name, size, [i \in 1..get_area(size) |-> default])

\* Attribute::get; the index is 0-based
AttributeGet(attribute, index) == attribute.values[index + 1]

\* Attribute::get_mut finds no cell ("Index is outside map!")
GetMutPanics(attribute, index) == index >= Len(attribute.values)

\* a write through the reference returned by Attribute::get_mut
GetMutWrite(attribute, index, value) ==
    [attribute EXCEPT !.values[index + 1] = value]

\* replace_values without its assertion
ReplaceValuesUnchecked(attribute, values) == FALSE

\* the assert_eq! of replace_values fails ("Wrong number of new values!")
ReplaceValuesPanics(attribute, values) == Len(values) # Len(attribute.values)

ReplaceValues(attribute, values) == [attribute EXCEPT !.values = values]

(***************************************************************************)
(* Map2d                                                                   *)
(***************************************************************************)
EmptyLookup == [n \in {} |-> 0]

with_name(name, size) ==
    [name |-> name, size |-> size,
     attribute_lookup |-> EmptyLookup, attributes |-> <<>>]

Map2dNew(size) == with_name("test", size)

\* add_attribute without the key test
ContainsKeyNever(map, name) == FALSE

\* the key test of add_attribute
ContainsKey(map, name) == name \in DOMAIN map.attribute_lookup

\* add_attribute replacing the attribute of the same name
add_attribute_replacing(map, attribute) ==
    LET id == Len(map.attributes)
    IN IF ContainsKey(map, attribute.name)
       THEN [map |-> [map EXCEPT
                        !.attributes[map.attribute_lookup[attribute.name] + 1] =
                            attribute],
             result |-> None]
       ELSE [map |-> [map EXCEPT
                        !.attribute_lookup =
                            [n \in DOMAIN map.attribute_lookup \cup {attribute.name} |->
                                IF n = attribute.name THEN id
                                ELSE map.attribute_lookup[n]],
                        !.attributes = Append(map.attributes, attribute)],
             result |-> Some(id)]

\* add_attribute: the map after the call and the returned Option<usize>
add_attribute(map, attribute) ==
    LET id == Len(map.attributes)
    IN IF ContainsKey(map, attribute.name)
       THEN [map |-> map, result |-> None]
       ELSE [map |-> [map EXCEPT
                        !.attribute_lookup =
                            [n \in DOMAIN map.attribute_lookup \cup {attribute.name} |->
                                IF n = attribute.name THEN id
                                ELSE map.attribute_lookup[n]],
                        !.attributes = Append(map.attributes, attribute)],
             result |-> Some(id)]

create_attribute(map, name, default) ==
    add_attribute(map, AttributeDefaultValue(name, map.size, default))

create_attribute_from(map, name, values) ==
    add_attribute(map, AttributeNew(name, map.size, values))

get_attribute_id(map, name) ==
    IF name \in DOMAIN map.attribute_lookup
    THEN Some(map.attribute_lookup[name])
    ELSE None

\* the unwrap! of get_attribute / get_attribute_mut fails
\* ("Unknown attribute id")
GetAttributePanics(map, id) == id >= Len(map.attributes)

get_attribute(map, id) == map.attributes[id + 1]

\* the map after `map.get_attribute_mut(id).replace_all(values)`
\* the new values written to the attribute and to the first attribute
ReplaceAllAndFirst(map, id, values) ==
    [map EXCEPT !.attributes[id + 1] = ReplaceValues(@, values),
                !.attributes[1] = ReplaceValues(@, values)]

ReplaceAll(map, id, values) ==
    [map EXCEPT !.attributes[id + 1] = ReplaceValues(@, values)]

(***************************************************************************)
(* Transformer2d                                                           *)
(***************************************************************************)
Const(value) == [kind |-> "Const", value |-> value]

OverwriteIfAboveThreshold(value, threshold) ==
    [kind |-> "OverwriteIfAboveThreshold", value |-> value, threshold |-> threshold]

OverwriteIfBelowThreshold(value, threshold) ==
    [kind |-> "OverwriteIfBelowThreshold", value |-> value, threshold |-> threshold]

overwrite_output_if_above(data, input, output) ==
    IF input >= data.threshold THEN data.value ELSE output

\* the overwrite for inputs strictly below the threshold only
overwrite_output_if_below_strict(data, input, output) ==
    IF input < data.threshold THEN data.value ELSE output

overwrite_output_if_below(data, input, output) ==
    IF input <= data.threshold THEN data.value ELSE output

\* Clusterer2dError
SizeMismatch(area, length) ==
    [kind |-> "SizeMismatch", area |-> area, length |-> length]

TooFewClusters(length) == [kind |-> "TooFewClusters", length |-> length]

\* the smallest integer >= x, for an f32 x >= 0 below 2^24, as u32
F32CeilToU32(x) ==
    IF x.m = 0 THEN 0
    ELSE IF x.e >= 0 THEN x.m * Pow2(x.e)
    ELSE IF 0 - x.e >= 24 THEN 1
    ELSE IF x.m % Pow2(0 - x.e) = 0 THEN x.m \div Pow2(0 - x.e)
    ELSE x.m \div Pow2(0 - x.e) + 1

\* the cell size rounded down
calculate_cluster_size_floor(number_of_clusters) ==
    F32ToI32(F32DivInt(F32FromInt(256), number_of_clusters))

\* `(256.0 / number_of_clusters as f32).ceil() as u32`, for
\* 1 <= number_of_clusters < 128
calculate_cluster_size(number_of_clusters) ==
    F32CeilToU32(F32DivInt(F32FromInt(256), number_of_clusters))

\* Clusterer2d::new with the two checks in the other order
Clusterer2dNewFewFirst(size, cluster_id_lookup) ==
    IF Len(cluster_id_lookup) < 2
    THEN [ok |-> FALSE, error |-> TooFewClusters(Len(cluster_id_lookup))]
    ELSE IF get_area(size) # Len(cluster_id_lookup)
    THEN [ok |-> FALSE,
          error |-> SizeMismatch(get_area(size), Len(cluster_id_lookup))]
    ELSE [ok |-> TRUE,
          value |-> [kind |-> "Clusterer",
                     lookup_table_size |-> size,
                     cluster_size |-> Size2dNew(calculate_cluster_size(size.width),
                                                calculate_cluster_size(size.height)),
                     cluster_id_lookup |-> cluster_id_lookup]]

\* Clusterer2d::new
Clusterer2dNew(size, cluster_id_lookup) ==
    IF get_area(size) # Len(cluster_id_lookup)
    THEN [ok |-> FALSE,
          error |-> SizeMismatch(get_area(size), Len(cluster_id_lookup))]
    ELSE IF Len(cluster_id_lookup) < 2
    THEN [ok |-> FALSE, error |-> TooFewClusters(Len(cluster_id_lookup))]
    ELSE [ok |-> TRUE,
          value |-> [kind |-> "Clusterer",
                     lookup_table_size |-> size,
                     cluster_size |-> Size2dNew(calculate_cluster_size(size.width),
                                                calculate_cluster_size(size.height)),
                     cluster_id_lookup |-> cluster_id_lookup]]

\* the index taken in the grid of the cells instead of the lookup table
ClusterIndexOfCells(clusterer, input0, input1) ==
    to_index_risky(clusterer.cluster_size,
                   input0 \div clusterer.cluster_size.width,
                   input1 \div clusterer.cluster_size.height)

\* the index Clusterer2d::cluster looks up
ClusterIndex(clusterer, input0, input1) ==
    to_index_risky(clusterer.lookup_table_size,
                   input0 \div clusterer.cluster_size.width,
                   input1 \div clusterer.cluster_size.height)

\* the lookup of Clusterer2d::cluster finds no entry
\* ("Index is too large for clusters!")
ClusterPanics(clusterer, input0, input1) ==
    ClusterIndex(clusterer, input0, input1) >= Len(clusterer.cluster_id_lookup)

\* Clusterer2d::cluster
cluster(clusterer, input0, input1) ==
    clusterer.cluster_id_lookup[ClusterIndex(clusterer, input0, input1) + 1]

\* Transformer2d::transform reaches a fatal failure
TransformPanics(transformer, input0, input1) ==
    /\ transformer.kind = "Clusterer"
    /\ ClusterPanics(transformer, input0, input1)

transform(transformer, input0, input1) ==
    CASE transformer.kind = "Const" -> transformer.value
      [] transformer.kind = "Clusterer" -> cluster(transformer, input0, input1)
      [] transformer.kind = "OverwriteIfAboveThreshold" ->
            overwrite_output_if_above(transformer, input0, input1)
      [] transformer.kind = "OverwriteIfBelowThreshold" ->
            overwrite_output_if_below(transformer, input0, input1)

\* TryFrom<Transformer2dData> for Transformer2d: every variant is taken over
Transformer2dTryFrom(data) == [ok |-> TRUE, value |-> data]

\* From<&Transformer2d> for Transformer2dData
Transformer2dInto(transformer) == transformer

(***************************************************************************)
(* Distance of two points.  A u32 is a whole number below 2^31 here, or a   *)
(* pair <<high, low>> of its halves of 16 bits where it can be larger.     *)
(***************************************************************************)
U16 == 65536

\* distance::abs_diff
abs_diff(a, b) == IF a < b THEN b - a ELSE a - b

\* d * d as a pair of halves, for 0 <= d <= 2^16
Square16(d) ==
    LET a == d \div 256
        b == d % 256
        t == 2 * a * b * 256 + b * b
    IN <<a * a + t \div U16, t % U16>>

\* the lowest 32 bits of d * d as a pair of halves, for 0 <= d < 2^31
wrapping_pow2(d) ==
    LET H == d \div U16
        L == d % U16
        cross == (2 * (H * (L % 256) + ((H * (L \div 256)) % 256) * 256)) % U16
        square == Square16(L)
    IN <<(square[1] + cross) % U16, square[2]>>

\* d.pow(2) leaves the range of a u32
PowOverflows(d) == d >= U16

\* the lowest 32 bits of p + q
wrapping_add(p, q) ==
    <<(p[1] + q[1] + (p[2] + q[2]) \div U16) % U16, (p[2] + q[2]) % U16>>

\* p + q leaves the range of a u32
AddOverflows(p, q) == p[1] + q[1] + (p[2] + q[2]) \div U16 >= U16

\* p <= q for pairs of halves
Leq32(p, q) == p[1] < q[1] \/ (p[1] = q[1] /\ p[2] <= q[2])

\* the largest r in low..high with r * r <= v
RECURSIVE SqrtBetween(_, _, _)
SqrtBetween(low, high, v) ==
    IF low = high THEN low
    ELSE LET mid == (low + high + 1) \div 2
         IN IF Leq32(Square16(mid), v)
            THEN SqrtBetween(mid, high, v)
            ELSE SqrtBetween(low, mid - 1, v)

\* Roots::sqrt of a u32: the whole part of the square root
sqrt32(v) == SqrtBetween(0, U16 - 1, v)

\* a multiplication or the addition of calculate_distance leaves the range
\* of a u32: a panic in a build with overflow checks, wrapped bits without
CalculateDistanceOverflows(x0, y0, x1, y1) ==
    \/ PowOverflows(abs_diff(x0, x1))
    \/ PowOverflows(abs_diff(y0, y1))
    \/ AddOverflows(wrapping_pow2(abs_diff(x0, x1)), wrapping_pow2(abs_diff(y0, y1)))

\* distance::calculate_distance
calculate_distance(x0, y0, x1, y1) ==
    sqrt32(wrapping_add(wrapping_pow2(abs_diff(x0, x1)), wrapping_pow2(abs_diff(y0, y1))))

(***************************************************************************)
(* Generator2d and Noise                                                   *)
(***************************************************************************)
IndexGenerator(size) == [kind |-> "IndexGenerator", size |-> size]

NoiseData(seed, scale, min_value, max_value) ==
    [seed |-> seed, scale |-> scale, min_value |-> min_value, max_value |-> max_value]

Noise2d(data) == [kind |-> "Noise2d", noise |-> data]

\* Noise::new without the check of the scale
NoiseNewAnyScale(seed, scale, min_value, max_value) ==
    IF min_value >= max_value
    THEN [ok |-> FALSE, error |-> "Noise's min_value must be smaller than max_value!"]
    ELSE [ok |-> TRUE,
          value |-> [seed |-> seed, scale |-> scale,
                     min_value |-> min_value, max_value |-> max_value]]

\* Noise::new which accepts equal bounds
NoiseNewEqualBounds(seed, scale, min_value, max_value) ==
    IF scale <= 0
    THEN [ok |-> FALSE, error |-> "Noise's scale must be positive!"]
    ELSE IF min_value > max_value
    THEN [ok |-> FALSE, error |-> "Noise's min_value must be smaller than max_value!"]
    ELSE [ok |-> TRUE,
          value |-> [seed |-> seed, scale |-> scale,
                     min_value |-> min_value, max_value |-> max_value]]

\* Noise::new: the two configuration checks
NoiseNew(seed, scale, min_value, max_value) ==
    IF scale <= 0
    THEN [ok |-> FALSE, error |-> "Noise's scale must be positive!"]
    ELSE IF min_value >= max_value
    THEN [ok |-> FALSE, error |-> "Noise's min_value must be smaller than max_value!"]
    ELSE [ok |-> TRUE,
          value |-> [seed |-> seed, scale |-> scale,
                     min_value |-> min_value, max_value |-> max_value]]

\* TryFrom<NoiseData> for Noise
NoiseTryFrom(data) ==
    NoiseNew(data.seed, data.scale, data.min_value, data.max_value)

\* the samples of the opaque noise function are counted in quarters:
\* -4 stands for -1.0 and 4 for 1.0
SampleUnits == 4

\* Noise::generate2d (and generate1d) for the sample algo.get returns:
\* ((sample + base) * factor) as u8 with base = 1.0 + min_value / 255.0 and
\* factor = (max_value - min_value) / 2.0, as one exact quotient
noise_generate(noise, sample) ==
    LET numerator == ((sample + SampleUnits) * 255 + SampleUnits * noise.min_value)
                        * (noise.max_value - noise.min_value)
        denominator == SampleUnits * 255 * 2
    IN Min(numerator \div denominator, U8Max)

\* TryFrom<Generator2dData> for Generator2d
Generator2dTryFrom(data) ==
    CASE data.kind = "IndexGenerator" -> [ok |-> TRUE, value |-> data]
      [] data.kind = "Noise2d" ->
            LET noise == NoiseTryFrom(data.noise)
            IN IF noise.ok
               THEN [ok |-> TRUE, value |-> [kind |-> "Noise2d", noise |-> noise.value]]
               ELSE [ok |-> FALSE, error |-> noise.error]

\* From<Generator2d> for Generator2dData
Generator2dInto(generator) ==
    CASE generator.kind = "IndexGenerator" -> IndexGenerator(generator.size)

\* Generator1d::InputAsOutput
InputAsOutput == [kind |-> "InputAsOutput"]

\* Generator1d::generate: `input as u8` keeps the lowest 8 bits
generate1d(generator, input) ==
    CASE generator.kind = "InputAsOutput" -> input % 256

\* Generator2d::new_apply_to_distance
ApplyToDistance(generator, x, y) ==
    [kind |-> "ApplyToDistance", generator |-> generator,
     center_x |-> x, center_y |-> y]

\* Generator2d::generate
generate2d(generator, x, y) ==
    CASE generator.kind = "IndexGenerator" ->
            saturating_to_index(generator.size, x, y) % 256
      [] generator.kind = "ApplyToDistance" ->
            generate1d(generator.generator,
                       calculate_distance(generator.center_x, generator.center_y, x, y))

(***************************************************************************)
(* Interpolation of bytes                                                  *)
(***************************************************************************)
\* `factor > 1.0`
F32GreaterOne(x) ==
    /\ x.m # 0
    /\ x.sign > 0
    /\ (x.e > -23 \/ (x.e = -23 /\ x.m > Pow2(23)))

\* lerp without the test of the factor
lerp_sum_unclamped(start, end, factor) ==
    IF end >= start
    THEN start + F32ToU8(F32MulInt(factor, end - start))
    ELSE start - F32ToU8(F32MulInt(factor, start - end))

\* the sum or difference lerp computes, before it is stored as a u8
lerp_sum(start, end, factor) ==
    IF F32GreaterOne(factor) THEN end
    ELSE IF end >= start
    THEN start + F32ToU8(F32MulInt(factor, end - start))
    ELSE start - F32ToU8(F32MulInt(factor, start - end))

\* the u8 addition or subtraction of lerp leaves the range of a byte: a
\* panic in a build with overflow checks, a wrapped value without them
LerpOverflows(start, end, factor) ==
    lerp_sum(start, end, factor) \notin 0..U8Max

\* interpolation::lerp
lerp(start, end, factor) == lerp_sum(start, end, factor) % 256

(***************************************************************************)
(* Gradients                                                               *)
(***************************************************************************)
\* Gradient::new
GradientNew(value_start, value_end, max_distance) ==
    [value_start |-> value_start, value_end |-> value_end,
     max_distance |-> max_distance]

\* Gradient::generate for 0 < max_distance < 128.  With max_distance = 0 the
\* factor is 0/0 = NaN at distance 0 (not above 1.0, and the product cast
\* to u8 is 0) and infinite at every other distance (above 1.0).
gradient_generate(gradient, distance) ==
    IF gradient.max_distance = 0
    THEN IF distance = 0 THEN gradient.value_start ELSE gradient.value_end
    ELSE lerp(gradient.value_start, gradient.value_end,
              F32DivInt(F32FromInt(distance), gradient.max_distance))

\* LinearGradientX::new
LinearGradientX(value_start, value_end, start, max_distance) ==
    [kind |-> "LinearGradientX",
     gradient |-> GradientNew(value_start, value_end, max_distance),
     start |-> start]

\* the gradient measured from 0 instead of from its start
LinearGradientXFromZero(generator, x, y) ==
    gradient_generate(generator.gradient, x)

\* LinearGradientX::generate
LinearGradientXGenerate(generator, x, y) ==
    IF x < generator.start
    THEN generator.gradient.value_start
    ELSE gradient_generate(generator.gradient, x - generator.start)

(***************************************************************************)
(* Selector: interpolation over a vector of (threshold, value) entries     *)
(***************************************************************************)
InterpolateEntry(threshold, value) == [threshold |-> threshold, value |-> value]

\* the threshold before the i-th pair, as the check of the order sees it
LastValue(vector, i) == IF i = 1 THEN 0 ELSE vector[i - 1][1]

\* Selector::new_interpolate_vector
new_interpolate_vector(vector) ==
    IF Len(vector) < 2
    THEN [ok |-> FALSE, error |-> "The vector needs at least 2 elements!"]
    ELSE IF \E i \in 1..Len(vector) : vector[i][1] < LastValue(vector, i)
    THEN [ok |-> FALSE, error |-> "The elements of vector are not ordered!"]
    ELSE [ok |-> TRUE,
          value |-> [kind |-> "InterpolateVector",
                     vector |-> [i \in 1..Len(vector) |->
                                   InterpolateEntry(vector[i][1], vector[i][2])]]]

\* lerp(start, end, numerator as f32 / denominator as f32) for bytes; the
\* quotient by 0 is NaN for the numerator 0 (not above 1.0, and the product
\* cast to u8 is 0) and infinite otherwise (above 1.0)
LerpOfQuotient(start, end, numerator, denominator) ==
    IF denominator = 0
    THEN IF numerator = 0 THEN start ELSE end
    ELSE lerp(start, end, F32DivByte(F32FromInt(numerator), denominator))

\* the position in the vector at which the loop of interpolate returns:
\* the first entry from the i-th on with input <= threshold, or the position
\* behind the vector
RECURSIVE FoundAt(_, _, _)
FoundAt(vector, i, input) ==
    IF i > Len(vector) \/ input <= vector[i].threshold THEN i
    ELSE FoundAt(vector, i + 1, input)

\* interpolate which keeps the first entry as the lower end of every interval
interpolate_from_first(vector, input) ==
    IF input <= vector[1].threshold THEN vector[1].value
    ELSE LET i == FoundAt(vector, 2, input)
         IN IF i > Len(vector) THEN vector[Len(vector)].value
            ELSE LerpOfQuotient(vector[1].value, vector[i].value,
                                input - vector[1].threshold,
                                vector[i].threshold - vector[1].threshold)

\* selector::interpolate
interpolate(vector, input) ==
    IF input <= vector[1].threshold THEN vector[1].value
    ELSE LET i == FoundAt(vector, 2, input)
         IN IF i > Len(vector) THEN vector[Len(vector)].value
            ELSE LerpOfQuotient(vector[i - 1].value, vector[i].value,
                                input - vector[i - 1].threshold,
                                vector[i].threshold - vector[i - 1].threshold)

\* a u8 subtraction of interpolate falls below 0
InterpolateUnderflows(vector, input) ==
    /\ input > vector[1].threshold
    /\ LET i == FoundAt(vector, 2, input)
       IN /\ i <= Len(vector)
          /\ \/ input < vector[i - 1].threshold
             \/ vector[i].threshold < vector[i - 1].threshold

\* the factor of interpolate is a quotient by 0
InterpolateDividesByZero(vector, input) ==
    /\ input > vector[1].threshold
    /\ LET i == FoundAt(vector, 2, input)
       IN /\ i <= Len(vector)
          /\ vector[i].threshold = vector[i - 1].threshold

(***************************************************************************)
(* The steps: portable descriptions (...Data) refer to attributes by name,   *)
(* resolved steps by id.                                                   *)
(***************************************************************************)
CreateAttribute(name, default) ==
    [kind |-> "CreateAttribute", name |-> name, default |-> default]

ModifyWithAttributeData(source, target, percentage, minimum) ==
    [kind |-> "ModifyWithAttribute", source |-> source, target |-> target,
     percentage |-> percentage, minimum |-> minimum]

ModifyWithAttribute(source_id, source_name, target_id, target_name, factor, minimum) ==
    [kind |-> "ModifyWithAttribute", source_id |-> source_id,
     source_name |-> source_name, target_id |-> target_id,
     target_name |-> target_name, factor |-> factor, minimum |-> minimum]

TransformAttribute2dData(name, source0, source1, target, transformer) ==
    [kind |-> "TransformAttribute2d", name |-> name, source0 |-> source0,
     source1 |-> source1, target |-> target, transformer |-> transformer]

TransformerNames(name, source0, source1, target) ==
    [name |-> name, source0 |-> source0, source1 |-> source1, target |-> target]

TransformAttribute2d(source_id0, source_id1, target_id, names, transformer) ==
    [kind |-> "TransformAttribute2d", source_id0 |-> source_id0,
     source_id1 |-> source_id1, target_id |-> target_id, names |-> names,
     transformer |-> transformer]

Distortion2dData(attribute, generator_x, generator_y) ==
    [kind |-> "Distortion2d", attribute |-> attribute,
     generator_x |-> generator_x, generator_y |-> generator_y]

Distortion2d(attribute_id, generator_x, generator_y) ==
    [kind |-> "Distortion2d", attribute_id |-> attribute_id,
     generator_x |-> generator_x, generator_y |-> generator_y]

\* Distortion1d::new as the payload of DistortAlongX
DistortAlongX(attribute_id, generator) ==
    [kind |-> "DistortAlongX", attribute_id |-> attribute_id,
     generator |-> generator]

\* Distortion1d::new as the payload of DistortAlongY
DistortAlongY(attribute_id, generator) ==
    [kind |-> "DistortAlongY", attribute_id |-> attribute_id,
     generator |-> generator]

(***************************************************************************)
(* Running a step on a map                                                 *)
(***************************************************************************)
\* CreateAttribute::run: the Option returned by create_attribute is dropped
CreateAttributeRun(step, map) ==
    create_attribute(map, step.name, step.default).map

\* the sum cast to an integer and reduced modulo 256 instead of `as u8`
calculate_value_wrapping(step, source, target) ==
    F32ToI32(F32Add(F32FromInt(target),
                    F32MulInt(step.factor, Max(source, step.minimum) - step.minimum)))
        % (U8Max + 1)

\* ModifyWithAttribute::calculate_value
calculate_value(step, source, target) ==
    F32ToU8(F32Add(F32FromInt(target),
                   F32MulInt(step.factor, Max(source, step.minimum) - step.minimum)))

\* ModifyWithAttribute::calculate_values
calculate_values(step, map) ==
    LET source_attribute == get_attribute(map, step.source_id)
        target_attribute == get_attribute(map, step.target_id)
    IN [i \in 1..get_area(map.size) |->
            calculate_value(step, AttributeGet(source_attribute, i - 1),
                                  AttributeGet(target_attribute, i - 1))]

ModifyWithAttributePanics(step, map) ==
    GetAttributePanics(map, step.target_id) \/ GetAttributePanics(map, step.source_id)

ModifyWithAttributeRun(step, map) ==
    ReplaceAll(map, step.target_id, calculate_values(step, map))

\* the transformer applied to the sources in the other order
TransformValuesExchanged(step, map) ==
    LET source_attribute0 == get_attribute(map, step.source_id0)
        source_attribute1 == get_attribute(map, step.source_id1)
    IN [i \in 1..get_area(map.size) |->
            transform(step.transformer,
                      AttributeGet(source_attribute1, i - 1),
                      AttributeGet(source_attribute0, i - 1))]

\* TransformAttribute2d::transform
TransformValues(step, map) ==
    LET source_attribute0 == get_attribute(map, step.source_id0)
        source_attribute1 == get_attribute(map, step.source_id1)
    IN [i \in 1..get_area(map.size) |->
            transform(step.transformer,
                      AttributeGet(source_attribute0, i - 1),
                      AttributeGet(source_attribute1, i - 1))]

TransformAttribute2dPanics(step, map) ==
    \/ GetAttributePanics(map, step.source_id0)
    \/ GetAttributePanics(map, step.source_id1)
    \/ GetAttributePanics(map, step.target_id)
    \/ \E i \in 1..get_area(map.size) :
          TransformPanics(step.transformer,
                          AttributeGet(get_attribute(map, step.source_id0), i - 1),
                          AttributeGet(get_attribute(map, step.source_id1), i - 1))

TransformAttribute2dRun(step, map) ==
    ReplaceAll(map, step.target_id, TransformValues(step, map))

\* the cells from the i-th down to the first replaced one by one in the
\* values themselves, each reading what the cells behind it left there
RECURSIVE DistortInPlaceFrom(_, _, _, _)
DistortInPlaceFrom(i, step, size, values) ==
    IF i = 0 THEN values
    ELSE LET x == (i - 1) % size.width
             y == (i - 1) \div size.width
             shift_x == generate2d(step.generator_x, x, y)
             shift_y == generate2d(step.generator_y, x, y)
             index == saturating_to_index(size, x + shift_x, y + shift_y)
         IN DistortInPlaceFrom(i - 1, step, size,
                               [values EXCEPT ![i] = values[index + 1]])

\* distort_map without a vector of its own for the new values
distort_map_in_place(step, map) ==
    DistortInPlaceFrom(get_area(map.size), step, map.size,
                       get_attribute(map, step.attribute_id).values)

\* Distortion2d::distort_map: rows outside, columns inside
distort_map(step, map) ==
    LET attribute == get_attribute(map, step.attribute_id)
    IN [i \in 1..get_area(map.size) |->
            LET x == (i - 1) % map.size.width
                y == (i - 1) \div map.size.width
                shift_x == generate2d(step.generator_x, x, y)
                shift_y == generate2d(step.generator_y, x, y)
                index == saturating_to_index(map.size, x + shift_x, y + shift_y)
            IN AttributeGet(attribute, index)]

Distortion2dPanics(step, map) == GetAttributePanics(map, step.attribute_id)

Distortion2dRun(step, map) ==
    ReplaceAll(map, step.attribute_id, distort_map(step, map))

\* Distortion1d::distort_row: the values pushed for row y
distort_row(y, shift, attribute) ==
    LET start == to_index(attribute.size, 0, y)
        start_value == AttributeGet(attribute, start)
        width == Max(attribute.size.width - shift, 0)
    IN [k \in 1..(shift + width) |->
            IF k <= shift THEN start_value
            ELSE AttributeGet(attribute, start + (k - shift - 1))]

\* the rows y, y + 1, ... pushed one after the other
RECURSIVE DistortRowsFrom(_, _, _)
DistortRowsFrom(y, step, map) ==
    IF y >= map.size.height THEN <<>>
    ELSE distort_row(y, generate1d(step.generator, y),
                     get_attribute(map, step.attribute_id))
         \o DistortRowsFrom(y + 1, step, map)

\* Distortion1d::distort_map_along_x
distort_map_along_x(step, map) == DistortRowsFrom(0, step, map)

\* Distortion1d::distort_along_x reaches a fatal failure: the attribute is
\* unknown or the rows pushed do not fill the attribute
DistortAlongXPanics(step, map) ==
    \/ GetAttributePanics(map, step.attribute_id)
    \/ ReplaceValuesPanics(get_attribute(map, step.attribute_id),
                           distort_map_along_x(step, map))

\* Distortion1d::distort_along_x
DistortAlongXRun(step, map) ==
    ReplaceAll(map, step.attribute_id, distort_map_along_x(step, map))

\* Distortion1d::distort_column writes at an index outside `values`:
\* the first loop writes `shift` cells of the column
DistortColumnPanics(x, shift, attribute) ==
    \E k \in 0..(shift - 1) :
        to_index(attribute.size, x, 0) + k * attribute.size.width
            >= get_area(attribute.size)

\* Distortion1d::distort_column: the value written to row y of column x
distort_column(x, y, shift, attribute) ==
    LET start == to_index(attribute.size, x, 0)
        width == attribute.size.width
    IN IF y < shift THEN AttributeGet(attribute, start)
       ELSE AttributeGet(attribute, start + (y - shift) * width)

\* Distortion1d::distort_map_along_y
distort_map_along_y(step, map) ==
    LET attribute == get_attribute(map, step.attribute_id)
    IN [i \in 1..get_area(map.size) |->
            LET x == (i - 1) % map.size.width
                y == (i - 1) \div map.size.width
            IN distort_column(x, y, generate1d(step.generator, x), attribute)]

\* Distortion1d::distort_along_y reaches a fatal failure
DistortAlongYPanics(step, map) ==
    \/ GetAttributePanics(map, step.attribute_id)
    \/ \E x \in 0..(map.size.width - 1) :
          DistortColumnPanics(x, generate1d(step.generator, x),
                              get_attribute(map, step.attribute_id))

\* Distortion1d::distort_along_y
DistortAlongYRun(step, map) ==
    ReplaceAll(map, step.attribute_id, distort_map_along_y(step, map))

\* GenerationStep::run reaches a fatal failure
StepPanics(step, map) ==
    CASE step.kind = "CreateAttribute" -> FALSE
      [] step.kind = "DistortAlongX" -> DistortAlongXPanics(step, map)
      [] step.kind = "DistortAlongY" -> DistortAlongYPanics(step, map)
      [] step.kind = "Distortion2d" -> Distortion2dPanics(step, map)
      [] step.kind = "ModifyWithAttribute" -> ModifyWithAttributePanics(step, map)
      [] step.kind = "TransformAttribute2d" -> TransformAttribute2dPanics(step, map)

\* GenerationStep::run
StepRun(step, map) ==
    CASE step.kind = "CreateAttribute" -> CreateAttributeRun(step, map)
      [] step.kind = "DistortAlongX" -> DistortAlongXRun(step, map)
      [] step.kind = "DistortAlongY" -> DistortAlongYRun(step, map)
      [] step.kind = "Distortion2d" -> Distortion2dRun(step, map)
      [] step.kind = "ModifyWithAttribute" -> ModifyWithAttributeRun(step, map)
      [] step.kind = "TransformAttribute2d" -> TransformAttribute2dRun(step, map)

(***************************************************************************)
(* Validation: portable description -> resolved steps                      *)
(***************************************************************************)
AttributeUnknown(name) == [kind |-> "AttributeUnknown", name |-> name]

Generator2dError(message) == [kind |-> "Generator2d", message |-> message]

\* the position found by get_attribute_id: the first entry equal to
\* attribute, 0-based
Position(attribute, attributes) ==
    (CHOOSE i \in 1..Len(attributes) :
        /\ attributes[i] = attribute
        /\ \A j \in 1..(i - 1) : attributes[j] # attribute) - 1

\* step::get_attribute_id
GetAttributeId(attribute, attributes) ==
    IF \E i \in 1..Len(attributes) : attributes[i] = attribute
    THEN [ok |-> TRUE, value |-> Position(attribute, attributes)]
    ELSE [ok |-> FALSE, error |-> AttributeUnknown(attribute)]

\* `percentage as f32 / 100.0`
PercentageToFactor(percentage) == F32DivInt(F32FromInt(percentage), 100)

\* `(factor * 100.0) as i32`
FactorToPercentage(factor) == F32ToI32(F32MulInt(factor, 100))

\* ModifyWithAttributeData::try_convert
ModifyTryConvert(data, attributes) ==
    LET source_id == GetAttributeId(data.source, attributes)
        target_id == GetAttributeId(data.target, attributes)
    IN IF ~source_id.ok THEN source_id
       ELSE IF ~target_id.ok THEN target_id
       ELSE [ok |-> TRUE,
             value |-> ModifyWithAttribute(source_id.value, data.source,
                                           target_id.value, data.target,
                                           PercentageToFactor(data.percentage),
                                           data.minimum)]

\* From<&ModifyWithAttribute> for ModifyWithAttributeData
ModifyInto(step) ==
    ModifyWithAttributeData(step.source_name, step.target_name,
                            FactorToPercentage(step.factor), step.minimum)

\* TransformAttribute2dData::try_convert
TransformTryConvert(data, attributes) ==
    LET source_id0 == GetAttributeId(data.source0, attributes)
        source_id1 == GetAttributeId(data.source1, attributes)
        target_id == GetAttributeId(data.target, attributes)
        transformer == Transformer2dTryFrom(data.transformer)
    IN IF ~source_id0.ok THEN source_id0
       ELSE IF ~source_id1.ok THEN source_id1
       ELSE IF ~target_id.ok THEN target_id
       ELSE IF ~transformer.ok THEN transformer
       ELSE [ok |-> TRUE,
             value |-> TransformAttribute2d(
                           source_id0.value, source_id1.value, target_id.value,
                           TransformerNames(data.name, data.source0,
                                            data.source1, data.target),
                           transformer.value)]

\* From<&TransformAttribute2d> for TransformAttribute2dData
TransformInto(step) ==
    TransformAttribute2dData(step.names.name, step.names.source0,
                             step.names.source1, step.names.target,
                             Transformer2dInto(step.transformer))

\* Distortion2dData::try_convert
Distortion2dTryConvert(data, attributes) ==
    LET id == GetAttributeId(data.attribute, attributes)
        generator_x == Generator2dTryFrom(data.generator_x)
        generator_y == Generator2dTryFrom(data.generator_y)
    IN IF ~id.ok THEN id
       ELSE IF ~generator_x.ok
       THEN [ok |-> FALSE, error |-> Generator2dError(generator_x.error)]
       ELSE IF ~generator_y.ok
       THEN [ok |-> FALSE, error |-> Generator2dError(generator_y.error)]
       ELSE [ok |-> TRUE,
             value |-> Distortion2d(id.value, generator_x.value, generator_y.value)]

\* Distortion2d::convert: the name is looked up in the replayed table
Distortion2dConvert(step, attributes) ==
    Distortion2dData(attributes[step.attribute_id + 1],
                     Generator2dInto(step.generator_x),
                     Generator2dInto(step.generator_y))

\* the table of known attributes after a step was converted: only a
\* CreateAttribute step appends, and it appends unconditionally
KnownAfter(data, attributes) ==
    IF data.kind = "CreateAttribute" THEN Append(attributes, data.name)
    ELSE attributes

\* GenerationStepData::try_convert
StepTryConvert(data, attributes) ==
    CASE data.kind = "CreateAttribute" -> [ok |-> TRUE, value |-> data]
      [] data.kind = "Distortion2d" -> Distortion2dTryConvert(data, attributes)
      [] data.kind = "ModifyWithAttribute" -> ModifyTryConvert(data, attributes)
      [] data.kind = "TransformAttribute2d" -> TransformTryConvert(data, attributes)

\* GenerationStep -> GenerationStepData
StepConvert(step, attributes) ==
    CASE step.kind = "CreateAttribute" -> step
      [] step.kind = "Distortion2d" -> Distortion2dConvert(step, attributes)
      [] step.kind = "ModifyWithAttribute" -> ModifyInto(step)
      [] step.kind = "TransformAttribute2d" -> TransformInto(step)

\* the error tagged with a 1-based position
MapGenerationErrorOneBased(index, error) ==
    [kind |-> "GenerationStep", index |-> index + 1, error |-> error]

MapGenerationError(index, error) ==
    [kind |-> "GenerationStep", index |-> index, error |-> error]

\* the iterator chain of try_from: the steps are converted in order and the
\* first error ends the conversion; index is 0-based
RECURSIVE TryConvertSteps(_, _, _, _)
TryConvertSteps(steps, index, attributes, converted) ==
    IF index = Len(steps) THEN [ok |-> TRUE, value |-> converted]
    ELSE LET result == StepTryConvert(steps[index + 1], attributes)
         IN IF ~result.ok
            THEN [ok |-> FALSE, error |-> MapGenerationError(index, result.error)]
            ELSE TryConvertSteps(steps, index + 1,
                                 KnownAfter(steps[index + 1], attributes),
                                 Append(converted, result.value))

MapGenerationNew(name, size, steps) ==
    [name |-> name, size |-> size, steps |-> steps]

MapGenerationData(name, size, steps) ==
    [name |-> name, size |-> size, steps |-> steps]

\* TryFrom<MapGenerationData> for MapGeneration
MapGenerationTryFrom(data) ==
    LET steps == TryConvertSteps(data.steps, 0, <<>>, <<>>)
    IN IF ~steps.ok THEN steps
       ELSE [ok |-> TRUE, value |-> MapGenerationNew(data.name, data.size, steps.value)]

RECURSIVE ConvertSteps(_, _, _, _)
ConvertSteps(steps, index, attributes, converted) ==
    IF index = Len(steps) THEN converted
    ELSE ConvertSteps(steps, index + 1,
                      KnownAfter(steps[index + 1], attributes),
                      Append(converted, StepConvert(steps[index + 1], attributes)))

\* From<&MapGeneration> for MapGenerationData
MapGenerationInto(map_generation) ==
    MapGenerationData(map_generation.name, map_generation.size,
                      ConvertSteps(map_generation.steps, 0, <<>>, <<>>))

(***************************************************************************)
(* Inputs of the model                                                     *)
(***************************************************************************)
MapSize == Size2dNew(MapWidth, MapHeight)

InvalidNoise == Noise2d(NoiseData(0, 0, 0, 255))

\* the portable steps a pipeline description is built from
StepDatas ==
    { CreateAttribute("a", 200),
      CreateAttribute("b", 20),
      ModifyWithAttributeData("a", "b", 53, 10),
      ModifyWithAttributeData("b", "b", 100, 0),
      TransformAttribute2dData("t", "a", "b", "b", OverwriteIfBelowThreshold(42, 100)),
      TransformAttribute2dData("t", "a", "a", "a", Const(99)),
      Distortion2dData("b", IndexGenerator(MapSize), IndexGenerator(MapSize)),
      Distortion2dData("a", InvalidNoise, IndexGenerator(MapSize)) }

Pipelines ==
    { MapGenerationData("map", MapSize, steps) :
        steps \in UNION { [1..n -> StepDatas] : n \in 0..MaxSteps } }

(***************************************************************************)
(* State                                                                   *)
(*   data        the portable description handed to try_from               *)
(*   generation  <<>> or <<r>>, r the Result of try_from                   *)
(*   back        <<>> or <<d>>, d the description produced by from         *)
(*   map         the map of the running generate(), or the directly driven *)
(*               map                                                       *)
(*   ran         0-based positions of the steps the running generate() has *)
(*               completed, in the order of completion                     *)
(*   results     the maps returned by the generate() calls so far          *)
(*   last        the last call on the directly driven map and its result   *)
(*   pc          position of the program                                   *)
(***************************************************************************)
VARIABLES data, generation, back, map, ran, results, last, pc

vars == <<data, generation, back, map, ran, results, last, pc>>

\* no map: generate() is not running
NoMap == with_name("", Size2dNew(0, 0))

NoCall == [op |-> "none"]

Init ==
    /\ data \in Pipelines
    /\ generation = <<>>
    /\ back = <<>>
    /\ map = NoMap
    /\ ran = <<>>
    /\ results = <<>>
    /\ last = NoCall
    /\ pc = "start"

\* let generation: Result<MapGeneration, _> = data.try_into()
TryFrom ==
    /\ pc = "start"
    /\ generation' = <<MapGenerationTryFrom(data)>>
    /\ pc' = IF MapGenerationTryFrom(data).ok THEN "built" ELSE "rejected"
    /\ UNCHANGED <<data, back, map, ran, results, last>>

\* let back: MapGenerationData = (&generation).into()
Into ==
    /\ pc = "built"
    /\ back = <<>>
    /\ back' = <<MapGenerationInto(generation[1].value)>>
    /\ UNCHANGED <<data, generation, map, ran, results, last, pc>>

\* generate() going on with the map of the previous call
GenerateMapReused(map_generation, previous) ==
    IF previous = NoMap
    THEN with_name(map_generation.name, map_generation.size)
    ELSE previous

\* the map generate() starts from
GenerateMap(map_generation, previous) ==
    with_name(map_generation.name, map_generation.size)

\* generate(): up to the creation of the map
GenerateStart ==
    /\ pc \in {"built", "returned"}
    /\ Len(results) < MaxRuns
    /\ map' = GenerateMap(generation[1].value,
                          IF results = <<>> THEN NoMap ELSE results[Len(results)])
    /\ ran' = <<>>
    /\ pc' = "generating"
    /\ UNCHANGED <<data, generation, back, results, last>>

\* for_each skipping the first step
NextStepSkipping(completed) == Len(completed) + 1

\* the 0-based position of the step for_each runs next
NextStep(completed) == Len(completed)

\* generate(): one iteration of for_each, a whole step.run(&mut map)
GenerateStep ==
    /\ pc = "generating"
    /\ NextStep(ran) < Len(generation[1].value.steps)
    /\ LET step == generation[1].value.steps[NextStep(ran) + 1]
       IN IF StepPanics(step, map)
          THEN /\ pc' = "panicked"
               /\ UNCHANGED <<map, ran>>
          ELSE /\ map' = StepRun(step, map)
               /\ ran' = Append(ran, NextStep(ran))
               /\ pc' = pc
    /\ UNCHANGED <<data, generation, back, results, last>>

\* generate(): the map is returned after the last step
GenerateReturn ==
    /\ pc = "generating"
    /\ NextStep(ran) >= Len(generation[1].value.steps)
    /\ results' = Append(results, map)
    /\ map' = NoMap
    /\ pc' = "returned"
    /\ UNCHANGED <<data, generation, back, ran, last>>

Next ==
    \/ TryFrom
    \/ Into
    \/ GenerateStart
    \/ GenerateStep
    \/ GenerateReturn

Spec == Init /\ [][Next]_vars

(***************************************************************************)
(* A map driven directly through the interface of Map2d and Attribute and  *)
(* by single steps.  A fatal failure (panic) ends the program; `last`      *)
(* records the call just made, its arguments and what it returned, and     *)
(* last.tick alternates so that no two consecutive calls look alike.       *)
(***************************************************************************)
\* the value arrays handed to the map: of the right length the constant
\* ones and an alternating one, one that is too short and one that is too
\* long
ValueArrays ==
    { [i \in 1..get_area(MapSize) |-> v] : v \in ByteSamples }
    \cup { [i \in 1..get_area(MapSize) |-> IF i % 2 = 1 THEN 10 ELSE 255],
           [i \in 1..(get_area(MapSize) - 1) |-> 10],
           [i \in 1..(get_area(MapSize) + 1) |-> 10] }

\* the cells written through get_mut: the first, the last and the one
\* behind the last
CellIndices == {0, get_area(MapSize) - 1, get_area(MapSize)}

\* ids handed to the map: those of all attributes it can hold and one more
Ids == 0..Cardinality(Names)

\* the resolved steps run on the directly driven map
MapSteps ==
    { CreateAttribute(n, d) : n \in Names, d \in ByteSamples }
    \cup { Distortion2d(id, IndexGenerator(MapSize), IndexGenerator(Size2dNew(1, 1))) :
             id \in Ids }
    \cup { TransformAttribute2d(0, 1, 1, TransformerNames("t", "a", "b", "b"),
                                OverwriteIfBelowThreshold(10, 10)),
           TransformAttribute2d(1, 1, 0, TransformerNames("t", "b", "b", "a"),
                                Const(255)),
           TransformAttribute2d(0, 0, 2, TransformerNames("t", "a", "a", "c"),
                                OverwriteIfAboveThreshold(0, 10)) }

InitMap ==
    /\ data = MapGenerationData("test", MapSize, <<>>)
    /\ generation = <<>>
    /\ back = <<>>
    /\ map = Map2dNew(MapSize)
    /\ ran = <<>>
    /\ results = <<>>
    /\ last = [op |-> "new", tick |-> 0]
    /\ pc = "ready"

Tick == 1 - last.tick

\* map.create_attribute(name, default)
CallCreateAttribute ==
    /\ pc = "ready"
    /\ \E name \in Names, default \in ByteSamples :
          LET call == create_attribute(map, name, default)
          IN /\ map' = call.map
             /\ last' = [op |-> "create_attribute", name |-> name,
                         default |-> default, result |-> call.result,
                         tick |-> Tick]
    /\ UNCHANGED <<data, generation, back, ran, results, pc>>

\* map.create_attribute_from(name, values)
CallCreateAttributeFrom ==
    /\ \E name \in Names, values \in ValueArrays :
          IF AttributeNewPanics(map.size, values)
          THEN /\ pc' = "panicked"
               /\ map' = map
               /\ last' = [op |-> "create_attribute_from", name |-> name,
                           values |-> values, result |-> None, tick |-> Tick]
          ELSE LET call == create_attribute_from(map, name, values)
               IN /\ pc' = pc
                  /\ map' = call.map
                  /\ last' = [op |-> "create_attribute_from", name |-> name,
                              values |-> values, result |-> call.result,
                              tick |-> Tick]
    /\ pc = "ready"
    /\ UNCHANGED <<data, generation, back, ran, results>>

\* *map.get_attribute_mut(id).get_mut(index) = value
CallGetMut ==
    /\ pc = "ready"
    /\ \E id \in Ids, index \in CellIndices, value \in ByteSamples :
          /\ last' = [op |-> "get_mut", id |-> id, index |-> index,
                      value |-> value, tick |-> Tick]
          /\ IF GetAttributePanics(map, id)
             THEN pc' = "panicked" /\ map' = map
             ELSE IF GetMutPanics(get_attribute(map, id), index)
             THEN pc' = "panicked" /\ map' = map
             ELSE /\ pc' = pc
                  /\ map' = [map EXCEPT !.attributes[id + 1] =
                                            GetMutWrite(@, index, value)]
    /\ UNCHANGED <<data, generation, back, ran, results>>

\* map.get_attribute_mut(id).replace_values(values)
CallReplaceValues ==
    /\ pc = "ready"
    /\ \E id \in Ids, values \in ValueArrays :
          /\ last' = [op |-> "replace_values", id |-> id, values |-> values,
                      tick |-> Tick]
          /\ IF GetAttributePanics(map, id)
             THEN pc' = "panicked" /\ map' = map
             ELSE IF ReplaceValuesPanics(get_attribute(map, id), values)
             THEN pc' = "panicked" /\ map' = map
             ELSE pc' = pc /\ map' = ReplaceAll(map, id, values)
    /\ UNCHANGED <<data, generation, back, ran, results>>

\* step.run(&mut map)
CallStepRun ==
    /\ pc = "ready"
    /\ \E step \in MapSteps :
          /\ last' = [op |-> "run", step |-> step, tick |-> Tick]
          /\ IF StepPanics(step, map)
             THEN pc' = "panicked" /\ map' = map
             ELSE pc' = pc /\ map' = StepRun(step, map)
    /\ UNCHANGED <<data, generation, back, ran, results>>

NextMap ==
    \/ CallCreateAttribute
    \/ CallCreateAttributeFrom
    \/ CallGetMut
    \/ CallReplaceValues
    \/ CallStepRun

SpecMap == InitMap /\ [][NextMap]_vars

(***************************************************************************)
(* The transformers and the interpolation called directly.  `last` records *)
(* the call, its arguments and its result.                                 *)
(***************************************************************************)
\* bytes around the borders of the cells of the lookup tables
ByteEdges == {0, 60, 63, 64, 85, 86, 100, 127, 128, 170, 171, 200, 255}

Bytes == 0..U8Max

\* OverwriteWithThreshold::new
OverwriteWithThreshold(value, threshold) ==
    [value |-> value, threshold |-> threshold]

ThresholdDatas ==
    { OverwriteWithThreshold(42, threshold) : threshold \in {0, 100, 255} }

\* the sizes and lookup tables handed to Clusterer2d::new
TableSizes == { Size2dNew(w, h) : w, h \in 0..MaxClusters }

ClusterTable(length) == [i \in 1..length |-> 10 * i]

TableLengths == 0..(MaxClusters * MaxClusters + 1)

ClusterInputs == (Bytes \X ByteEdges) \cup (ByteEdges \X Bytes)

\* the factors of lerp: numerator / denominator as f32
LerpNumerators == -5..5

LerpDenominators == {1, 2, 3, 4, 100}

LerpBytes == {0, 1, 100, 150, 200, 254, 255}

\* the gradients: the rising and the falling one of the tests, steep ones
\* over the whole range of a byte and ones of length 0
LinearGradients ==
    { LinearGradientX(100, 200, 1000, 100), LinearGradientX(150, 50, 100, 50),
      LinearGradientX(0, 255, 5, 3), LinearGradientX(255, 0, 5, 7),
      LinearGradientX(100, 200, 5, 0), LinearGradientX(200, 100, 0, 0) }

\* the inputs of a gradient: 0 and the inputs around its slope
GradientInputs(generator) ==
    {0} \cup { x \in (generator.start - 100)
                     ..(generator.start + generator.gradient.max_distance + 100) :
               x >= 0 }

\* the vectors handed to new_interpolate_vector: up to 3 pairs
SelectorThresholds == {0, 100, 150, 200, 255}

SelectorValues == {100, 150, 200}

SelectorVectors ==
    UNION { [1..n -> SelectorThresholds \X SelectorValues] : n \in 0..3 }

\* the inputs of a selector: on, next to and between the thresholds
SelectorInputs ==
    {0, 1, 50, 99, 100, 101, 125, 149, 150, 151, 175, 199, 200, 201, 254, 255}

\* the configurations of a noise: scales (whole numbers as f64; 0 and
\* positive ones as the u32 of a NoiseData) and bounds
NoiseScales == {-1, 0, 1, 5}

NoiseBounds == {0, 10, 128, 255}

NoiseDatas ==
    { NoiseData(300, scale, min_value, max_value) :
        scale \in NoiseScales \ {-1}, min_value \in NoiseBounds, max_value \in NoiseBounds }

\* the samples of the opaque noise function, in quarters
NoiseSamples == (0 - SampleUnits)..SampleUnits

\* the sizes of an IndexGenerator and the coordinates handed to it, inside
\* and outside of the size, with indices above 255
IndexSizes == { Size2dNew(w, h) : w \in {1, 2, 3, 100}, h \in {1, 2, 3} }

IndexXs == {0, 1, 2, 3, 99, 100}

IndexYs == 0..3

\* the coordinates of the points of a distance
DistanceCoordinates == {0, 3, 4, 10, 65535, 65536, 65546, 2147483647}

\* pipelines of a CreateAttribute and a Distortion2d with noise generators
NoisePipelines ==
    { MapGenerationData("map", MapSize,
                        <<CreateAttribute("a", 200),
                          Distortion2dData("a", generator_x, generator_y)>>) :
        generator_x, generator_y \in
            {IndexGenerator(MapSize)} \cup { Noise2d(d) : d \in NoiseDatas } }

InitMath ==
    /\ data = MapGenerationData("test", MapSize, <<>>)
    /\ generation = <<>>
    /\ back = <<>>
    /\ map = NoMap
    /\ ran = <<>>
    /\ results = <<>>
    /\ last = NoCall
    /\ pc = "ready"

\* data.overwrite_output_if_above(input, output)
CallOverwriteIfAbove ==
    /\ pc = "ready"
    /\ \E d \in ThresholdDatas, input \in Bytes, output \in {0, 42, 200} :
          last' = [op |-> "overwrite_output_if_above", data |-> d,
                   input |-> input, output |-> output,
                   result |-> overwrite_output_if_above(d, input, output)]
    /\ pc' = "done"
    /\ UNCHANGED <<data, generation, back, map, ran, results>>

\* data.overwrite_output_if_below(input, output)
CallOverwriteIfBelow ==
    /\ pc = "ready"
    /\ \E d \in ThresholdDatas, input \in Bytes, output \in {0, 42, 200} :
          last' = [op |-> "overwrite_output_if_below", data |-> d,
                   input |-> input, output |-> output,
                   result |-> overwrite_output_if_below(d, input, output)]
    /\ pc' = "done"
    /\ UNCHANGED <<data, generation, back, map, ran, results>>

\* Clusterer2d::new(size, cluster_id_lookup)
CallClustererNew ==
    /\ pc = "ready"
    /\ \E size \in TableSizes, length \in TableLengths :
          LET result == Clusterer2dNew(size, ClusterTable(length))
          IN /\ last' = [op |-> "Clusterer2d::new", size |-> size,
                         cluster_id_lookup |-> ClusterTable(length),
                         result |-> result]
             /\ pc' = IF result.ok THEN "constructed" ELSE "done"
    /\ UNCHANGED <<data, generation, back, map, ran, results>>

\* clusterer.cluster(input0, input1) on the clusterer just constructed
CallCluster ==
    /\ pc = "constructed"
    /\ \E input \in ClusterInputs :
          LET clusterer == last.result.value
              panics == ClusterPanics(clusterer, input[1], input[2])
          IN /\ last' = [op |-> "cluster", clusterer |-> clusterer,
                         input0 |-> input[1], input1 |-> input[2],
                         result |-> IF panics THEN None
                                    ELSE Some(cluster(clusterer, input[1], input[2]))]
             /\ pc' = IF panics THEN "panicked" ELSE "done"
    /\ UNCHANGED <<data, generation, back, map, ran, results>>

\* lerp(start, end, numerator as f32 / denominator as f32); an addition or
\* subtraction that leaves the u8 range panics or wraps, as the build decides
CallLerp ==
    /\ pc = "ready"
    /\ \E start \in LerpBytes, end \in LerpBytes,
          numerator \in LerpNumerators, denominator \in LerpDenominators :
          LET factor == F32DivInt(F32FromInt(numerator), denominator)
              overflows == LerpOverflows(start, end, factor)
          IN /\ last' = [op |-> "lerp", start |-> start, end |-> end,
                         numerator |-> numerator, denominator |-> denominator,
                         factor |-> factor, overflows |-> overflows,
                         result |-> lerp(start, end, factor)]
             /\ pc' \in IF overflows THEN {"panicked", "done"} ELSE {"done"}
    /\ UNCHANGED <<data, generation, back, map, ran, results>>

\* generator.generate(x, y) of a LinearGradientX
CallLinearGradientX ==
    /\ pc = "ready"
    /\ \E generator \in LinearGradients :
          \E x \in GradientInputs(generator), y \in {0, 5} :
             last' = [op |-> "LinearGradientX::generate", generator |-> generator,
                      x |-> x, y |-> y,
                      result |-> LinearGradientXGenerate(generator, x, y)]
    /\ pc' = "done"
    /\ UNCHANGED <<data, generation, back, map, ran, results>>

\* Selector::new_interpolate_vector(vector)
CallNewInterpolateVector ==
    /\ pc = "ready"
    /\ \E vector \in SelectorVectors :
          LET result == new_interpolate_vector(vector)
          IN /\ last' = [op |-> "new_interpolate_vector", vector |-> vector,
                         result |-> result]
             /\ pc' = IF result.ok THEN "selector" ELSE "done"
    /\ UNCHANGED <<data, generation, back, map, ran, results>>

\* selector.get(input) on the selector just constructed; a u8 subtraction
\* below 0 panics or wraps, as the build decides
CallInterpolate ==
    /\ pc = "selector"
    /\ \E input \in SelectorInputs :
          LET vector == last.result.value.vector
              underflows == InterpolateUnderflows(vector, input)
          IN /\ last' = [op |-> "interpolate", vector |-> vector, input |-> input,
                         underflows |-> underflows,
                         divides_by_zero |-> InterpolateDividesByZero(vector, input),
                         result |-> interpolate(vector, input)]
             /\ pc' \in IF underflows THEN {"panicked", "done"} ELSE {"done"}
    /\ UNCHANGED <<data, generation, back, map, ran, results>>

\* Noise::new(seed, scale, min_value, max_value)
CallNoiseNew ==
    /\ pc = "ready"
    /\ \E scale \in NoiseScales, min_value \in NoiseBounds, max_value \in NoiseBounds :
          last' = [op |-> "Noise::new",
                   noise |-> NoiseData(300, scale, min_value, max_value),
                   result |-> NoiseNew(300, scale, min_value, max_value)]
    /\ pc' = "done"
    /\ UNCHANGED <<data, generation, back, map, ran, results>>

\* let noise: Result<Noise, _> = noise_data.try_into()
CallNoiseTryFrom ==
    /\ pc = "ready"
    /\ \E noise_data \in NoiseDatas :
          last' = [op |-> "Noise::try_from", noise |-> noise_data,
                   result |-> NoiseTryFrom(noise_data)]
    /\ pc' = "done"
    /\ UNCHANGED <<data, generation, back, map, ran, results>>

\* noise.generate2d(x, y) on a Noise that Noise::new returned, for every
\* sample the opaque noise function can return at the point
CallNoiseGenerate ==
    /\ pc = "ready"
    /\ \E noise_data \in NoiseDatas, sample \in NoiseSamples :
          /\ NoiseTryFrom(noise_data).ok
          /\ last' = [op |-> "Noise::generate2d",
                      noise |-> NoiseTryFrom(noise_data).value,
                      sample |-> sample,
                      result |-> noise_generate(NoiseTryFrom(noise_data).value, sample)]
    /\ pc' = "done"
    /\ UNCHANGED <<data, generation, back, map, ran, results>>

\* Generator2d::new_index(width, height).generate(x, y)
CallIndexGenerate ==
    /\ pc = "ready"
    /\ \E size \in IndexSizes, x \in IndexXs, y \in IndexYs :
          last' = [op |-> "IndexGenerator::generate", size |-> size,
                   x |-> x, y |-> y,
                   result |-> generate2d(IndexGenerator(size), x, y)]
    /\ pc' = "done"
    /\ UNCHANGED <<data, generation, back, map, ran, results>>

\* Generator2d::new_apply_to_distance(InputAsOutput, x0, y0).generate(x1, y1)
\* with its calculate_distance(x0, y0, x1, y1), and the distance of the
\* points exchanged; an overflow panics or wraps, as the build decides
CallCalculateDistance ==
    /\ pc = "ready"
    /\ \E x0 \in DistanceCoordinates, y0 \in DistanceCoordinates,
          x1 \in DistanceCoordinates, y1 \in DistanceCoordinates :
          LET overflows == CalculateDistanceOverflows(x0, y0, x1, y1)
          IN /\ last' = [op |-> "calculate_distance",
                         x0 |-> x0, y0 |-> y0, x1 |-> x1, y1 |-> y1,
                         overflows |-> overflows,
                         distance |-> calculate_distance(x0, y0, x1, y1),
                         exchanged |-> calculate_distance(x1, y1, x0, y0),
                         result |-> generate2d(ApplyToDistance(InputAsOutput, x0, y0),
                                               x1, y1)]
             /\ pc' \in IF overflows THEN {"panicked", "done"} ELSE {"done"}
    /\ UNCHANGED <<data, generation, back, map, ran, results>>

\* let generation: Result<MapGeneration, _> = data.try_into() for a
\* pipeline with noise generators
CallMapGenerationTryFrom ==
    /\ pc = "ready"
    /\ \E pipeline \in NoisePipelines :
          /\ data' = pipeline
          /\ generation' = <<MapGenerationTryFrom(pipeline)>>
          /\ last' = [op |-> "MapGeneration::try_from"]
          /\ pc' = IF MapGenerationTryFrom(pipeline).ok THEN "built" ELSE "rejected"
    /\ UNCHANGED <<back, map, ran, results>>

NextMath ==
    \/ CallOverwriteIfAbove
    \/ CallOverwriteIfBelow
    \/ CallClustererNew
    \/ CallCluster
    \/ CallLerp
    \/ CallLinearGradientX
    \/ CallNewInterpolateVector
    \/ CallInterpolate
    \/ CallNoiseNew
    \/ CallNoiseTryFrom
    \/ CallNoiseGenerate
    \/ CallIndexGenerate
    \/ CallCalculateDistance
    \/ CallMapGenerationTryFrom

SpecMath == InitMath /\ [][NextMath]_vars

(***************************************************************************)
(* Single steps run on prepared maps.  `last` records the step just run.   *)
(***************************************************************************)
\* the sizes of the prepared maps
StepSizes ==
    { Size2dNew(w, h) : w \in 1..(MapWidth + 1), h \in 1..(MapHeight + 2) }

\* the cells numbered row after row, from 1
Ramp(size) == [i \in 1..get_area(size) |-> i]

\* one map of every size with the attribute "test"
RampMaps ==
    { create_attribute_from(Map2dNew(size), "test", Ramp(size)).map :
        size \in StepSizes }

\* the map of the documented example of TransformAttribute2d
ExampleMap ==
    LET m0 == Map2dNew(Size2dNew(3, 2))
        m1 == create_attribute_from(m0, "source0", <<0, 1, 99, 100, 101, 255>>).map
        m2 == create_attribute_from(m1, "source1",
                                    <<200, 199, 198, 197, 196, 195>>).map
    IN create_attribute(m2, "target", 10).map

\* the values around the thresholds of the transformers
StepSamples == <<20, 100, 101, 200>>

\* value arrays of the model's size: one value in every cell, or the values
\* one after the other starting from the k-th
SampleArrays(samples) ==
    { [i \in 1..get_area(MapSize) |-> samples[k]] : k \in 1..Len(samples) }
    \cup { [i \in 1..get_area(MapSize) |-> samples[((i + k) % Len(samples)) + 1]] :
             k \in 1..Len(samples) }

\* maps of the model's size with the attributes "a", "b" and "c"
SampleMaps ==
    { create_attribute(
          create_attribute_from(
              create_attribute_from(Map2dNew(MapSize), "a", a).map, "b", b).map,
          "c", c).map :
        a \in SampleArrays(StepSamples),
        b \in SampleArrays(<<20, 200>>),
        c \in ByteSamples }

StepMaps == RampMaps \cup {ExampleMap} \cup SampleMaps

\* the transformers of the steps run
StepTransformers ==
    { OverwriteIfBelowThreshold(42, 100),
      OverwriteIfAboveThreshold(42, 101),
      Const(7),
      Clusterer2dNew(Size2dNew(2, 2), ClusterTable(4)).value }

\* percentage and minimum of the ModifyWithAttribute steps run
ModifyParameters ==
    { [percentage |-> 53, minimum |-> 10],
      [percentage |-> 100, minimum |-> 0],
      [percentage |-> 50, minimum |-> 100],
      [percentage |-> -50, minimum |-> 100],
      [percentage |-> 100, minimum |-> 255],
      [percentage |-> -100, minimum |-> 255] }

\* the generators of the Distortion2d steps run on a map of a size
StepGenerators(size) ==
    { IndexGenerator(Size2dNew(1, 1)),
      IndexGenerator(Size2dNew(2, 2)),
      IndexGenerator(size) }

InitStep ==
    /\ data = MapGenerationData("test", MapSize, <<>>)
    /\ generation = <<>>
    /\ back = <<>>
    /\ map \in StepMaps
    /\ ran = <<>>
    /\ results = <<>>
    /\ last = NoCall
    /\ pc = "ready"

\* step.run(&mut map) for a step of the prepared map
RunStep(step, call) ==
    /\ last' = call
    /\ IF StepPanics(step, map)
       THEN pc' = "panicked" /\ map' = map
       ELSE pc' = "done" /\ map' = StepRun(step, map)
    /\ UNCHANGED <<data, generation, back, ran, results>>

\* GenerationStep::TransformAttribute2d(step).run(&mut map)
RunTransformAttribute2d ==
    /\ pc = "ready"
    /\ Len(map.attributes) = 3
    /\ \E target_id \in 0..2, transformer \in StepTransformers :
          LET step == TransformAttribute2d(
                          0, 1, target_id,
                          TransformerNames("t", map.attributes[1].name,
                                           map.attributes[2].name,
                                           map.attributes[target_id + 1].name),
                          transformer)
          IN RunStep(step, [op |-> "run", step |-> step])

\* GenerationStep::ModifyWithAttribute(step).run(&mut map), the step built
\* by try_convert from a percentage
RunModifyWithAttribute ==
    /\ pc = "ready"
    /\ Len(map.attributes) = 3
    /\ \E p \in ModifyParameters, source \in {1, 2}, target \in {2, 3} :
          LET names == <<map.attributes[1].name, map.attributes[2].name,
                         map.attributes[3].name>>
              step == ModifyTryConvert(
                          ModifyWithAttributeData(names[source], names[target],
                                                  p.percentage, p.minimum),
                          names).value
          IN RunStep(step, [op |-> "run", step |-> step,
                            percentage |-> p.percentage])

\* GenerationStep::DistortAlongX(step).run(&mut map)
RunDistortAlongX ==
    /\ pc = "ready"
    /\ LET step == DistortAlongX(0, InputAsOutput)
       IN RunStep(step, [op |-> "run", step |-> step])

\* GenerationStep::DistortAlongY(step).run(&mut map)
RunDistortAlongY ==
    /\ pc = "ready"
    /\ LET step == DistortAlongY(0, InputAsOutput)
       IN RunStep(step, [op |-> "run", step |-> step])

\* GenerationStep::Distortion2d(step).run(&mut map)
RunDistortion2d ==
    /\ pc = "ready"
    /\ \E generator_x \in StepGenerators(map.size),
          generator_y \in StepGenerators(map.size) :
          LET step == Distortion2d(0, generator_x, generator_y)
          IN RunStep(step, [op |-> "run", step |-> step])

NextStepRun ==
    \/ RunTransformAttribute2d
    \/ RunModifyWithAttribute
    \/ RunDistortAlongX
    \/ RunDistortAlongY
    \/ RunDistortion2d

SpecStep == InitStep /\ [][NextStepRun]_vars

(***************************************************************************)
(* Vocabulary of the properties                                            *)
(***************************************************************************)
\* the attribute names a portable step refers to
References(step) ==
    CASE step.kind = "CreateAttribute" -> {}
      [] step.kind = "Distortion2d" -> {step.attribute}
      [] step.kind = "ModifyWithAttribute" -> {step.source, step.target}
      [] step.kind = "TransformAttribute2d" -> {step.source0, step.source1, step.target}

\* the names declared by a CreateAttribute at a position < index (0-based)
DeclaredBefore(steps, index) ==
    { steps[j].name : j \in { k \in 1..index : steps[k].kind = "CreateAttribute" } }

\* the 0-based positions of the steps that refer to a name not declared before
UndeclaredPositions(steps) ==
    { i \in 0..(Len(steps) - 1) :
        ~(References(steps[i + 1]) \subseteq DeclaredBefore(steps, i)) }

AllDeclared(steps) == UndeclaredPositions(steps) = {}

GeneratorConfigurationValid(generator) ==
    generator.kind = "Noise2d"
        => generator.noise.scale > 0 /\ generator.noise.min_value < generator.noise.max_value

ConfigurationValid(step) ==
    step.kind = "Distortion2d"
        => /\ GeneratorConfigurationValid(step.generator_x)
           /\ GeneratorConfigurationValid(step.generator_y)

\* the 0-based positions of the steps with an invalid configuration
InvalidPositions(steps) ==
    { i \in 0..(Len(steps) - 1) : ~ConfigurationValid(steps[i + 1]) }

SetMin(S) == CHOOSE x \in S : \A y \in S : x <= y

Converted == generation # <<>>

\* the pairs <<id, name>> of a resolved step and the portable step it was
\* resolved from
ResolvedReferences(step, described) ==
    CASE step.kind = "CreateAttribute" -> {}
      [] step.kind = "Distortion2d" -> {<<step.attribute_id, described.attribute>>}
      [] step.kind = "ModifyWithAttribute" ->
            {<<step.source_id, described.source>>, <<step.target_id, described.target>>}
      [] step.kind = "TransformAttribute2d" ->
            {<<step.source_id0, described.source0>>,
             <<step.source_id1, described.source1>>,
             <<step.target_id, described.target>>}

\* the map after the first count steps have run on it, one after the other
RECURSIVE RunFirst(_, _, _)
RunFirst(steps, count, start) ==
    IF count = 0 THEN start
    ELSE StepRun(steps[count], RunFirst(steps, count - 1, start))

(***************************************************************************)
(* Properties of validation and serialisation                              *)
(***************************************************************************)
\* C1: a description that converts into a MapGeneration is structurally
\* equal to the description that MapGeneration converts back into.
C1_RoundTrip == back # <<>> => back[1] = data

\* C2 as stated: the conversion succeeds exactly if every referenced name
\* was declared by a CreateAttribute at a strictly earlier position.
C2_SucceedsIffDeclared ==
    Converted => (generation[1].ok <=> AllDeclared(data.steps))

\* C2 as amended: the conversion succeeds exactly if every referenced name
\* was declared by a CreateAttribute at a strictly earlier position and
\* every generator configuration of the description is valid.
C2_SucceedsIffDeclaredAndValid ==
    Converted =>
        (generation[1].ok <=>
            AllDeclared(data.steps) /\ InvalidPositions(data.steps) = {})

C2_Witness ==
    /\ Converted
    /\ generation[1].ok
    /\ \E i \in 1..Len(data.steps) : References(data.steps[i]) = {"a", "b"}

\* C3: a conversion that fails for an undeclared name yields
\* GenerationStep(i, AttributeUnknown(name)) with i the position of the
\* first step that refers to an undeclared name and name one of the names
\* that step refers to and that is not declared before i; a declaration at
\* a later position changes nothing.
C3_AttributeUnknown ==
    Converted =>
        LET result == generation[1]
            unknown == UndeclaredPositions(data.steps)
            invalid == InvalidPositions(data.steps)
        IN /\ (~result.ok /\ result.error.error.kind = "AttributeUnknown")
                => /\ unknown # {}
                   /\ result.error.kind = "GenerationStep"
                   /\ result.error.index = SetMin(unknown)
                   /\ result.error.error.name \in
                        References(data.steps[result.error.index + 1])
                            \ DeclaredBefore(data.steps, result.error.index)
           /\ (unknown # {} /\ \A j \in invalid : j >= SetMin(unknown))
                => /\ ~result.ok
                   /\ result.error.kind = "GenerationStep"
                   /\ result.error.index = SetMin(unknown)
                   /\ result.error.error.kind = "AttributeUnknown"

C3_Witness ==
    /\ Converted
    /\ ~generation[1].ok
    /\ generation[1].error.error.kind = "AttributeUnknown"
    /\ generation[1].error.index > 0
    /\ \E j \in (generation[1].error.index + 2)..Len(data.steps) :
          /\ data.steps[j].kind = "CreateAttribute"
          /\ data.steps[j].name = generation[1].error.error.name

(***************************************************************************)
(* Properties of generate()                                                *)
(***************************************************************************)
\* C4: generate() of a validated pipeline never reaches the fatal
\* "Unknown attribute id" failure: when a step runs, each id it holds is
\* the id of an existing attribute with the name the description referred to.
C4_IdsDenoteAttributes ==
    /\ pc # "panicked"
    /\ (pc = "generating" /\ NextStep(ran) < Len(data.steps))
         => \A r \in ResolvedReferences(generation[1].value.steps[NextStep(ran) + 1],
                                        data.steps[NextStep(ran) + 1]) :
                /\ r[1] < Len(map.attributes)
                /\ map.attributes[r[1] + 1].name = r[2]

\* C5: generate() starts from a map with the configured name and size and
\* no attributes, runs the steps one after the other in list order, each
\* exactly once and each on the map its predecessor left, and returns the
\* map the last step left.
C5_StepsInOrder ==
    LET steps == generation[1].value.steps
        empty == [name |-> data.name, size |-> data.size,
                  attribute_lookup |-> EmptyLookup, attributes |-> <<>>]
    IN /\ pc = "generating"
            => /\ ran = [i \in 1..Len(ran) |-> i - 1]
               /\ Len(ran) <= Len(steps)
               /\ map = RunFirst(steps, Len(ran), empty)
       /\ pc = "returned"
            => /\ ran = [i \in 1..Len(steps) |-> i - 1]
               /\ results[Len(results)] = RunFirst(steps, Len(steps), empty)

C5_Witness ==
    /\ pc = "returned"
    /\ Len(ran) = 3
    /\ generation[1].value.steps[3].kind = "ModifyWithAttribute"
    /\ results[1].attributes[2].values[1] = 120

AttributeNames(m) == { m.attributes[k].name : k \in 1..Len(m.attributes) }

\* the call just made handed over a value array of the wrong length
WrongLengthCall(call, m) ==
    \/ /\ call.op = "create_attribute_from"
       /\ Len(call.values) # m.size.width * m.size.height
    \/ /\ call.op = "replace_values"
       /\ call.id < Len(m.attributes)
       /\ Len(call.values) # m.size.width * m.size.height

\* C7: every attribute holds width * height values, whatever was called;
\* a construction or replacement with another number of values fails
\* fatally and leaves the attributes as they were.
C7_ValuesFillTheSize ==
    /\ [](\A k \in 1..Len(map.attributes) :
            Len(map.attributes[k].values) =
                map.attributes[k].size.width * map.attributes[k].size.height)
    /\ [][WrongLengthCall(last', map) => pc' = "panicked" /\ map' = map]_vars

C7_Witness ==
    /\ pc = "panicked"
    /\ last.op = "replace_values"
    /\ Len(last.values) = MapWidth * MapHeight + 1
    /\ Len(map.attributes) = 2
    /\ last.id < 2
    /\ map.attributes[last.id + 1].values # [i \in 1..(MapWidth * MapHeight) |-> 10]

\* C8: attribute names are pairwise distinct, the attribute at index k is
\* found under its name with id k, no id is found for a name that was not
\* created, and an attribute keeps its index, name and size for good.
C8_NamesAndIds ==
    /\ [](/\ \A j, k \in 1..Len(map.attributes) :
                map.attributes[j].name = map.attributes[k].name => j = k
          /\ \A k \in 1..Len(map.attributes) :
                get_attribute_id(map, map.attributes[k].name) = Some(k - 1)
          /\ \A n \in Names :
                get_attribute_id(map, n) = None <=> n \notin AttributeNames(map))
    /\ [][/\ Len(map'.attributes) >= Len(map.attributes)
          /\ \A k \in 1..Len(map.attributes) :
                /\ map'.attributes[k].name = map.attributes[k].name
                /\ map'.attributes[k].size = map.attributes[k].size
          /\ (last'.op \in {"create_attribute", "create_attribute_from"}
                /\ last'.result # None)
                => /\ last'.name \notin AttributeNames(map)
                   /\ map'.attributes[last'.result[1] + 1].name = last'.name]_vars

C8_Witness ==
    /\ Len(map.attributes) = 2
    /\ last.op = "create_attribute_from"
    /\ last.result = None
    /\ pc = "ready"

\* C9: create_attribute with a name the map holds returns None and leaves
\* the map as it was; with a new name it returns the number of attributes
\* the map held before the call.
C9_CreateAttribute ==
    [][last'.op = "create_attribute" =>
          IF last'.name \in AttributeNames(map)
          THEN last'.result = None /\ map' = map
          ELSE /\ last'.result = Some(Len(map.attributes))
               /\ Len(map'.attributes) = Len(map.attributes) + 1]_vars

C9_Witness ==
    /\ last.op = "create_attribute"
    /\ last.result = None
    /\ \E k \in 1..Len(map.attributes) :
          /\ map.attributes[k].name = last.name
          /\ \A i \in 1..(MapWidth * MapHeight) :
                map.attributes[k].values[i] # last.default

\* the step just run appended an attribute with its name, the size of the
\* map and its default in every cell
Appended(step, before, after) ==
    /\ Len(after.attributes) = Len(before.attributes) + 1
    /\ LET attribute == after.attributes[Len(after.attributes)]
       IN /\ attribute.name = step.name
          /\ attribute.size = before.size
          /\ attribute.values =
                [i \in 1..(before.size.width * before.size.height) |-> step.default]

\* C10 as stated: a CreateAttribute step adds exactly one attribute to any
\* map, with the given name, the size of the map and the default in every
\* cell.
C10_CreateAppends ==
    [][(last'.op = "run" /\ last'.step.kind = "CreateAttribute")
          => Appended(last'.step, map, map')]_vars

\* C10 as amended: a CreateAttribute step adds exactly one such attribute
\* to a map that holds no attribute of that name, and leaves a map that
\* holds one as it was.
C10_CreateAppendsNewName ==
    [][(last'.op = "run" /\ last'.step.kind = "CreateAttribute")
          => IF last'.step.name \in AttributeNames(map)
             THEN map' = map
             ELSE Appended(last'.step, map, map')]_vars

C10_Witness ==
    /\ last.op = "run"
    /\ last.step.kind = "CreateAttribute"
    /\ Len(map.attributes) = 2
    /\ map.attributes[2].name = last.step.name
    /\ map.attributes[2].values = [i \in 1..(MapWidth * MapHeight) |-> 255]
    /\ map.attributes[1].values = [i \in 1..(MapWidth * MapHeight) |-> 10]

(***************************************************************************)
(* Properties of the transformers and of the steps                         *)
(***************************************************************************)
\* the values of the attribute with the id
ValuesOf(m, id) == m.attributes[id + 1].values

\* the step just run is of the kind
JustRan(call, kind) == call.op = "run" /\ call.step.kind = kind

\* C11: a TransformAttribute2d step completes and leaves in every cell i of
\* the target the transformer's output for the cells i of the two sources
\* as they were before the step, whatever the target held; the other
\* attributes keep their values; on the documented 3x2 example with
\* OverwriteIfBelowThreshold(42, 100) the target becomes
\* [42, 42, 42, 42, 196, 195].
C11_TransformAttribute2d ==
    [][JustRan(last', "TransformAttribute2d") =>
          LET step == last'.step
          IN /\ pc' = "done"
             /\ Len(ValuesOf(map', step.target_id)) = map.size.width * map.size.height
             /\ \A i \in 1..(map.size.width * map.size.height) :
                   ValuesOf(map', step.target_id)[i] =
                       transform(step.transformer,
                                 ValuesOf(map, step.source_id0)[i],
                                 ValuesOf(map, step.source_id1)[i])
             /\ \A id \in 0..(Len(map.attributes) - 1) :
                   id # step.target_id => map'.attributes[id + 1] = map.attributes[id + 1]
             /\ (/\ ValuesOf(map, 0) = <<0, 1, 99, 100, 101, 255>>
                 /\ ValuesOf(map, 1) = <<200, 199, 198, 197, 196, 195>>
                 /\ step.source_id0 = 0
                 /\ step.source_id1 = 1
                 /\ step.transformer = OverwriteIfBelowThreshold(42, 100))
                => ValuesOf(map', step.target_id) = <<42, 42, 42, 42, 196, 195>>]_vars

C11_Witness ==
    /\ pc = "done"
    /\ JustRan(last, "TransformAttribute2d")
    /\ last.step.target_id = 2
    /\ map.size = Size2dNew(3, 2)
    /\ ValuesOf(map, 0) = <<0, 1, 99, 100, 101, 255>>
    /\ ValuesOf(map, 2) = <<42, 42, 42, 42, 196, 195>>

C13_ClustererNew ==
    /\ last.op = "Clusterer2d::new" =>
          LET area == last.size.width * last.size.height
              length == Len(last.cluster_id_lookup)
          IN /\ length # area =>
                   /\ ~last.result.ok
                   /\ last.result.error.kind = "SizeMismatch"
                   /\ last.result.error.area = area
                   /\ last.result.error.length = length
             /\ (length = area /\ length < 2) =>
                   /\ ~last.result.ok
                   /\ last.result.error.kind = "TooFewClusters"
                   /\ last.result.error.length = length
             /\ (length = area /\ length >= 2) =>
                   /\ last.result.ok
                   /\ last.result.value.lookup_table_size = last.size
                   /\ last.result.value.cluster_id_lookup = last.cluster_id_lookup
    /\ last.op = "cluster" =>
          /\ Len(last.clusterer.cluster_id_lookup) =
                last.clusterer.lookup_table_size.width
                    * last.clusterer.lookup_table_size.height
          /\ Len(last.clusterer.cluster_id_lookup) >= 2

C13_Witness ==
    /\ last.op = "Clusterer2d::new"
    /\ last.size = Size2dNew(1, 2)
    /\ Len(last.cluster_id_lookup) = 1
    /\ ~last.result.ok
    /\ last.result.error.kind = "SizeMismatch"

\* the smallest c with c * n >= 256: ceil(256 / n)
CellSize(n) == (256 + n - 1) \div n

\* C14: cluster(input0, input1) of a constructed clusterer with a w x h
\* table finds an entry: with x = input0 div ceil(256 / w) and
\* y = input1 div ceil(256 / h), x < w, y < h and the result is the entry
\* y * w + x of the table.
C14_Cluster ==
    last.op = "cluster" =>
        LET w == last.clusterer.lookup_table_size.width
            h == last.clusterer.lookup_table_size.height
            x == last.input0 \div CellSize(w)
            y == last.input1 \div CellSize(h)
        IN /\ pc # "panicked"
           /\ x < w
           /\ y < h
           /\ last.result = Some(last.clusterer.cluster_id_lookup[y * w + x + 1])

C14_Witness ==
    /\ last.op = "cluster"
    /\ last.clusterer.lookup_table_size = Size2dNew(3, 2)
    /\ last.input0 = 170
    /\ last.input1 = 200
    /\ last.result = Some(50)

Cell(values, width, x, y) == values[y * width + x + 1]

\* C16 as stated: a DistortAlongX step completes and, with s the generator's
\* output for row y, leaves old[0, y] in the cells x < s of the row and
\* old[x - s, y] in the cells s <= x < width; the 3x3 attribute
\* [1, ..., 9] becomes [1, 2, 3, 4, 4, 5, 7, 7, 7] under the identity
\* generator.
C16_DistortAlongX ==
    [][JustRan(last', "DistortAlongX") =>
          LET step == last'.step
              w == map.size.width
              old == ValuesOf(map, step.attribute_id)
              new == ValuesOf(map', step.attribute_id)
          IN /\ pc' = "done"
             /\ Len(new) = Len(old)
             /\ \A y \in 0..(map.size.height - 1), x \in 0..(w - 1) :
                   LET shift == generate1d(step.generator, y)
                   IN Cell(new, w, x, y) =
                          IF x < shift THEN Cell(old, w, 0, y)
                          ELSE Cell(old, w, x - shift, y)
             /\ (map.size = Size2dNew(3, 3) /\ old = <<1, 2, 3, 4, 5, 6, 7, 8, 9>>)
                   => new = <<1, 2, 3, 4, 4, 5, 7, 7, 7>>]_vars

\* C17 as stated: a DistortAlongY step completes and, with s the generator's
\* output for column x, leaves old[x, 0] in the cells y < s of the column
\* and old[x, y - s] in the cells s <= y < height; the 3x3 attribute
\* [1, ..., 9] becomes [1, 2, 3, 4, 2, 3, 7, 5, 3] under the identity
\* generator.
C17_DistortAlongY ==
    [][JustRan(last', "DistortAlongY") =>
          LET step == last'.step
              w == map.size.width
              old == ValuesOf(map, step.attribute_id)
              new == ValuesOf(map', step.attribute_id)
          IN /\ pc' = "done"
             /\ Len(new) = Len(old)
             /\ \A y \in 0..(map.size.height - 1), x \in 0..(w - 1) :
                   LET shift == generate1d(step.generator, x)
                   IN Cell(new, w, x, y) =
                          IF y < shift THEN Cell(old, w, x, 0)
                          ELSE Cell(old, w, x, y - shift)
             /\ (map.size = Size2dNew(3, 3) /\ old = <<1, 2, 3, 4, 5, 6, 7, 8, 9>>)
                   => new = <<1, 2, 3, 4, 2, 3, 7, 5, 3>>]_vars

\* C18: a Distortion2d step on a non-empty map completes and leaves in every
\* cell (x, y) the old value of the cell (min(x + dx, width - 1),
\* min(y + dy, height - 1)), dx and dy being the outputs of the two
\* generators for (x, y); the cell read lies inside the attribute.
C18_Distortion2d ==
    [][JustRan(last', "Distortion2d") =>
          LET step == last'.step
              w == map.size.width
              h == map.size.height
              old == ValuesOf(map, step.attribute_id)
              new == ValuesOf(map', step.attribute_id)
          IN /\ pc' = "done"
             /\ Len(new) = w * h
             /\ \A y \in 0..(h - 1), x \in 0..(w - 1) :
                   LET dx == generate2d(step.generator_x, x, y)
                       dy == generate2d(step.generator_y, x, y)
                       read_x == IF x + dx > w - 1 THEN w - 1 ELSE x + dx
                       read_y == IF y + dy > h - 1 THEN h - 1 ELSE y + dy
                   IN /\ read_y * w + read_x < Len(old)
                      /\ Cell(new, w, x, y) = Cell(old, w, read_x, read_y)]_vars

C18_Witness ==
    /\ pc = "done"
    /\ JustRan(last, "Distortion2d")
    /\ last.step.generator_x = IndexGenerator(Size2dNew(2, 2))
    /\ last.step.generator_y = IndexGenerator(Size2dNew(1, 1))
    /\ map.size = Size2dNew(3, 3)
    /\ ValuesOf(map, 0) = <<1, 3, 3, 6, 6, 6, 9, 9, 9>>

\* C19 as stated: a ModifyWithAttribute step built from a percentage p and a
\* minimum leaves in every cell of the target, up to the rounding of one
\* unit, old_target + max(0, source - minimum) * adjusted_factor with
\* adjusted_factor = (p / 100) * 255 / (255 - minimum), limited to 255.
C19_AdjustedFactor ==
    [][JustRan(last', "ModifyWithAttribute") =>
          LET step == last'.step
              source == ValuesOf(map, step.source_id)
              target == ValuesOf(map, step.target_id)
              new == ValuesOf(map', step.target_id)
              rest == U8Max - step.minimum
          IN /\ pc' = "done"
             /\ \A i \in 1..Len(target) :
                   rest > 0 =>
                   LET above == IF source[i] > step.minimum
                                THEN source[i] - step.minimum ELSE 0
                       sum == (target[i] * 100 * rest
                                 + above * last'.percentage * U8Max)
                              \div (100 * rest)
                       expected == IF sum > U8Max THEN U8Max ELSE sum
                   IN /\ new[i] - expected <= 1
                      /\ expected - new[i] <= 1]_vars

\* the factor of the lerp call lies below 0
NegativeFactor(call) == call.numerator < 0

\* the factor of the lerp call lies above 1
FactorAboveOne(call) == call.numerator > call.denominator

\* C20: lerp returns start for a factor below 0 and end for a factor above
\* 1; otherwise start + floor((end - start) * factor) when end >= start and
\* start - floor((start - end) * factor) when end < start, the product
\* being the f32 product; the result lies between start and end and no
\* addition or subtraction leaves the range of a byte.
C20_Lerp ==
    last.op = "lerp" =>
        LET low == IF last.start < last.end THEN last.start ELSE last.end
            high == IF last.start < last.end THEN last.end ELSE last.start
            product == F32ToI32(F32MulInt(last.factor, high - low))
        IN /\ ~last.overflows
           /\ pc = "done"
           /\ low <= last.result /\ last.result <= high
           /\ NegativeFactor(last) => last.result = last.start
           /\ FactorAboveOne(last) => last.result = last.end
           /\ (~NegativeFactor(last) /\ ~FactorAboveOne(last)) =>
                 /\ last.end >= last.start => last.result = last.start + product
                 /\ last.end < last.start => last.result = last.start - product
                 /\ last.denominator \in {1, 2, 4} =>
                       product = ((high - low) * last.numerator) \div last.denominator

C20_Witness ==
    /\ last.op = "lerp"
    /\ last.start = 200
    /\ last.end = 100
    /\ last.numerator = 5
    /\ last.denominator = 2
    /\ last.result = 100

(***************************************************************************)
(* C21 .. C30                                                              *)
(***************************************************************************)
\* the linear gradient of a call: its values, its start and its length
GradientOf(call) ==
    [value_start |-> call.generator.gradient.value_start,
     value_end |-> call.generator.gradient.value_end,
     start |-> call.generator.start,
     length |-> call.generator.gradient.max_distance]

\* the gradient and the input of a call
GradientAt(call, value_start, value_end, start, length, input) ==
    /\ GradientOf(call) = [value_start |-> value_start, value_end |-> value_end,
                           start |-> start, length |-> length]
    /\ call.x = input

\* C21: a gradient returns value_start for every input <= start, otherwise
\* value_end for every input >= start + length, and in between
\* lerp(value_start, value_end, (input - start) / length), a value between
\* the two that is at most one away from the exact quotient; rising and
\* falling gradients alike.  Gradient(100,200,1000,100) gives 100 at 900, 150
\* at 1050 and 200 at 1200; the falling gradient (150,50,100,50) gives 148 at
\* 101 and 52 at 149.
C21_Gradient ==
    last.op = "LinearGradientX::generate" =>
        LET g == GradientOf(last)
            low == Min(g.value_start, g.value_end)
            high == Max(g.value_start, g.value_end)
            distance == last.x - g.start
        IN /\ last.x <= g.start => last.result = g.value_start
           /\ (last.x > g.start /\ last.x >= g.start + g.length) =>
                 last.result = g.value_end
           /\ (last.x > g.start /\ last.x < g.start + g.length) =>
                 LET exact == ((high - low) * distance) \div g.length
                     ideal == IF g.value_end >= g.value_start
                              THEN g.value_start + exact
                              ELSE g.value_start - exact
                 IN /\ last.result =
                          lerp(g.value_start, g.value_end,
                               F32DivInt(F32FromInt(distance), g.length))
                    /\ low <= last.result /\ last.result <= high
                    /\ Abs(last.result - ideal) <= 1
           /\ GradientAt(last, 100, 200, 1000, 100, 900) => last.result = 100
           /\ GradientAt(last, 100, 200, 1000, 100, 1050) => last.result = 150
           /\ GradientAt(last, 100, 200, 1000, 100, 1200) => last.result = 200
           /\ GradientAt(last, 150, 50, 100, 50, 101) => last.result = 148
           /\ GradientAt(last, 150, 50, 100, 50, 149) => last.result = 52

C21_Witness ==
    /\ last.op = "LinearGradientX::generate"
    /\ GradientAt(last, 150, 50, 100, 50, 149)
    /\ last.result = 52

\* the vector of the call is the one of the example
ExampleVector(call) ==
    call.vector = <<InterpolateEntry(100, 150), InterpolateEntry(150, 200),
                    InterpolateEntry(200, 100)>>

\* C22: on a vector of at least 2 entries ordered by threshold, an input at
\* or below the first threshold gives the first value, an input above the
\* last threshold the last value, and any other input the lerp between the
\* adjacent entries with lower < input <= upper, with the factor
\* (input - lower) / (upper - lower): a value between the two, at most one
\* from the exact quotient.  No subtraction falls below 0 and no quotient is
\* by 0, entries of equal threshold included.  The vector
\* [(100,150),(150,200),(200,100)] gives 150 at 0 and 100, 175 at 125, 200 at
\* 150, 150 at 175 and 100 at 200 and 255.
C22_InterpolateVector ==
    last.op = "interpolate" =>
        LET v == last.vector
            n == Len(v)
            input == last.input
        IN /\ n >= 2
           /\ \A i \in 1..(n - 1) : v[i].threshold <= v[i + 1].threshold
           /\ ~last.underflows
           /\ ~last.divides_by_zero
           /\ pc = "done"
           /\ input <= v[1].threshold => last.result = v[1].value
           /\ input > v[n].threshold => last.result = v[n].value
           /\ \A i \in 1..(n - 1) :
                 (v[i].threshold < input /\ input <= v[i + 1].threshold) =>
                    LET width == v[i + 1].threshold - v[i].threshold
                        low == Min(v[i].value, v[i + 1].value)
                        high == Max(v[i].value, v[i + 1].value)
                        exact == ((high - low) * (input - v[i].threshold)) \div width
                        ideal == IF v[i + 1].value >= v[i].value
                                 THEN v[i].value + exact ELSE v[i].value - exact
                    IN /\ last.result =
                             lerp(v[i].value, v[i + 1].value,
                                  F32DivByte(F32FromInt(input - v[i].threshold), width))
                       /\ low <= last.result /\ last.result <= high
                       /\ Abs(last.result - ideal) <= 1
           /\ ExampleVector(last) =>
                 /\ input \in {0, 100} => last.result = 150
                 /\ input = 125 => last.result = 175
                 /\ input = 150 => last.result = 200
                 /\ input = 175 => last.result = 150
                 /\ input \in {200, 255} => last.result = 100

\* an input between two entries behind a pair of entries of equal threshold
C22_Witness ==
    /\ last.op = "interpolate"
    /\ last.vector = <<InterpolateEntry(100, 150), InterpolateEntry(100, 200),
                       InterpolateEntry(200, 100)>>
    /\ last.input = 150
    /\ last.result = 150

\* the configuration of a noise is one the construction has to refuse
NoiseInvalid(noise) == noise.scale <= 0 \/ noise.min_value >= noise.max_value

\* the noise configurations a portable step carries
NoisesOf(step) ==
    IF step.kind = "Distortion2d"
    THEN { g.noise : g \in { h \in {step.generator_x, step.generator_y} :
                             h.kind = "Noise2d" } }
    ELSE {}

\* the 0-based positions of the steps that carry an invalid noise
InvalidNoisePositions(steps) ==
    { i \in 0..(Len(steps) - 1) : \E n \in NoisesOf(steps[i + 1]) : NoiseInvalid(n) }

\* C23: Noise::new and the conversion of a NoiseData return a failure with
\* a message and no Noise whenever scale <= 0 or min_value >= max_value
\* (scale 0 and min_value = max_value included), and the Noise otherwise;
\* the conversion of a pipeline with a step that carries such a noise fails
\* at that step with a generator error, so that no generate() ever runs on
\* it, and succeeds when every noise is valid.
C23_NoiseConstruction ==
    /\ last.op \in {"Noise::new", "Noise::try_from"} =>
          /\ NoiseInvalid(last.noise) =>
                /\ ~last.result.ok
                /\ DOMAIN last.result = {"ok", "error"}
                /\ last.result.error \in
                      {"Noise's scale must be positive!",
                       "Noise's min_value must be smaller than max_value!"}
          /\ ~NoiseInvalid(last.noise) =>
                /\ last.result.ok
                /\ last.result.value = last.noise
    /\ last.op = "MapGeneration::try_from" =>
          LET invalid == InvalidNoisePositions(data.steps)
              result == generation[1]
          IN /\ invalid # {} =>
                   /\ ~result.ok
                   /\ DOMAIN result = {"ok", "error"}
                   /\ result.error.kind = "GenerationStep"
                   /\ result.error.index = SetMin(invalid)
                   /\ result.error.error.kind = "Generator2d"
                   /\ pc = "rejected"
                   /\ map = NoMap /\ results = <<>>
             /\ invalid = {} => result.ok /\ pc = "built"

\* a pipeline whose noise has equal bounds was rejected
C23_Witness ==
    /\ last.op = "MapGeneration::try_from"
    /\ \E n \in NoisesOf(data.steps[2]) : n.scale > 0 /\ n.min_value = n.max_value
    /\ \A n \in NoisesOf(data.steps[2]) : n.scale > 0 /\ n.min_value <= n.max_value
    /\ pc = "rejected"

\* C24 as stated: the byte generated by a constructed Noise lies in
\* [min_value, max_value]; the sample -1 gives min_value, the sample +1
\* gives max_value and the samples in between are mapped linearly (up to
\* the rounding of one unit).
C24_NoiseRange ==
    last.op = "Noise::generate2d" =>
        LET min_value == last.noise.min_value
            max_value == last.noise.max_value
            linear == min_value
                        + ((last.sample + SampleUnits) * (max_value - min_value))
                             \div (2 * SampleUnits)
        IN /\ min_value <= last.result /\ last.result <= max_value
           /\ last.sample = 0 - SampleUnits => last.result = min_value
           /\ last.sample = SampleUnits => last.result = max_value
           /\ Abs(last.result - linear) <= 1

\* C25 as stated: IndexGenerator(size).generate(x, y) returns
\* (y * size.width + x) mod 256 for all coordinates, those with
\* x >= size.width or y >= size.height included.
C25_IndexGenerator ==
    last.op = "IndexGenerator::generate" =>
        last.result = (last.y * last.size.width + last.x) % 256

\* p + q for pairs of halves, the high half not limited to 16 bits
ExactSum(p, q) == <<p[1] + q[1] + (p[2] + q[2]) \div U16, (p[2] + q[2]) % U16>>

\* C26 as stated: calculate_distance returns floor(sqrt(dx*dx + dy*dy)) with
\* dx = |x0 - x1| and dy = |y0 - y1| for all coordinates, no multiplication
\* or addition leaving 32 bits and no failure, dx or dy of 65536 or more
\* included; the distance is the same with the points exchanged, and it is
\* what ApplyToDistance feeds to its generator.
C26_Distance ==
    last.op = "calculate_distance" =>
        LET dx == abs_diff(last.x0, last.x1)
            dy == abs_diff(last.y0, last.y1)
        IN /\ ~last.overflows
           /\ pc = "done"
           /\ last.distance = last.exchanged
           /\ last.result = last.distance % 256
           /\ LET sum == ExactSum(Square16(dx), Square16(dy))
              IN /\ Leq32(Square16(last.distance), sum)
                 /\ ~Leq32(Square16(last.distance + 1), sum)

\* the attribute a step of the kinds run here replaces
TargetOf(step) ==
    IF step.kind \in {"ModifyWithAttribute", "TransformAttribute2d"}
    THEN step.target_id ELSE step.attribute_id

\* the attributes a step reads
SourcesOf(step) ==
    CASE step.kind = "ModifyWithAttribute" -> {step.source_id, step.target_id}
      [] step.kind = "TransformAttribute2d" -> {step.source_id0, step.source_id1}
      [] OTHER -> {step.attribute_id}

\* the value of cell (x, y) of the target that the step computes from the
\* map `before`, whatever the other cells of the target hold by then
NewCell(step, before, x, y) ==
    LET w == before.size.width
        At(id, cx, cy) == Cell(ValuesOf(before, id), w, cx, cy)
    IN CASE step.kind = "ModifyWithAttribute" ->
                calculate_value(step, At(step.source_id, x, y), At(step.target_id, x, y))
         [] step.kind = "TransformAttribute2d" ->
                transform(step.transformer,
                          At(step.source_id0, x, y), At(step.source_id1, x, y))
         [] step.kind = "Distortion2d" ->
                At(step.attribute_id,
                   Min(x + generate2d(step.generator_x, x, y), w - 1),
                   Min(y + generate2d(step.generator_y, x, y), before.size.height - 1))
         [] step.kind = "DistortAlongX" ->
                At(step.attribute_id, Max(x - generate1d(step.generator, y), 0), y)
         [] step.kind = "DistortAlongY" ->
                At(step.attribute_id, x, Max(y - generate1d(step.generator, x), 0))

\* C27: a step whose target is one of its sources (ModifyWithAttribute with
\* source_id = target_id, TransformAttribute2d with the target one of its
\* two sources, every distortion) and that completes leaves in every cell of
\* the target the value computed from the attributes as they were before
\* the step; no cell depends on a value the step itself wrote.
C27_Snapshot ==
    [][(/\ last'.op = "run"
        /\ pc' = "done"
        /\ TargetOf(last'.step) \in SourcesOf(last'.step)
        /\ (last'.step.kind = "ModifyWithAttribute"
               => last'.step.source_id = last'.step.target_id))
          => LET step == last'.step
                 new == ValuesOf(map', TargetOf(step))
             IN /\ Len(new) = get_area(map.size)
                /\ \A y \in 0..(map.size.height - 1), x \in 0..(map.size.width - 1) :
                      Cell(new, map.size.width, x, y) = NewCell(step, map, x, y)]_vars

\* a Distortion2d step on [1, ..., 9] has moved the old 5 of the cell (1, 1)
\* into the cell (1, 0), although the cell (1, 1) was replaced by 8
C27_Witness ==
    /\ pc = "done"
    /\ JustRan(last, "Distortion2d")
    /\ last.step.generator_x = IndexGenerator(Size2dNew(1, 1))
    /\ last.step.generator_y = IndexGenerator(Size2dNew(2, 2))
    /\ map.size = Size2dNew(3, 3)
    /\ ValuesOf(map, 0) = <<1, 5, 6, 7, 8, 9, 7, 8, 9>>

\* C28: a step other than CreateAttribute changes at most the values of its
\* one target attribute: the values of every other attribute (the sources
\* that are not the target included), the number of attributes, the name
\* and the size of every attribute and of the map stay as they were.
C28_Frame ==
    [][last'.op = "run" =>
          LET step == last'.step
          IN /\ Len(map'.attributes) = Len(map.attributes)
             /\ map'.size = map.size
             /\ map'.name = map.name
             /\ map'.attribute_lookup = map.attribute_lookup
             /\ \A id \in 0..(Len(map.attributes) - 1) :
                   /\ map'.attributes[id + 1].name = map.attributes[id + 1].name
                   /\ map'.attributes[id + 1].size = map.attributes[id + 1].size
                   /\ id # TargetOf(step)
                         => ValuesOf(map', id) = ValuesOf(map, id)
             /\ Len(ValuesOf(map', TargetOf(step))) = Len(ValuesOf(map, TargetOf(step)))]_vars

\* a ModifyWithAttribute step has changed its target, the second attribute
\* of the 3x2 example, and its source and the third attribute are as they
\* were prepared
C28_Witness ==
    /\ pc = "done"
    /\ JustRan(last, "ModifyWithAttribute")
    /\ last.step.source_id = 0
    /\ last.step.target_id = 1
    /\ last.percentage = 100
    /\ ValuesOf(map, 0) = <<0, 1, 99, 100, 101, 255>>
    /\ ValuesOf(map, 1) = <<200, 200, 255, 255, 255, 255>>
    /\ ValuesOf(map, 2) = <<10, 10, 10, 10, 10, 10>>

\* C29 as stated: DistortAlongX and DistortAlongY complete without a fatal
\* failure and leave width * height values for every shift of the generator
\* and every non-empty size; a shift of at least the width fills the row
\* (of at least the height: the column) with its old first value.
C29_DistortionCompletes ==
    [][(JustRan(last', "DistortAlongX") \/ JustRan(last', "DistortAlongY")) =>
          LET step == last'.step
              w == map.size.width
              h == map.size.height
              old == ValuesOf(map, step.attribute_id)
              new == ValuesOf(map', step.attribute_id)
          IN /\ pc' = "done"
             /\ Len(new) = w * h
             /\ step.kind = "DistortAlongX" =>
                   \A y \in 0..(h - 1) :
                      generate1d(step.generator, y) >= w =>
                         \A x \in 0..(w - 1) : Cell(new, w, x, y) = Cell(old, w, 0, y)
             /\ step.kind = "DistortAlongY" =>
                   \A x \in 0..(w - 1) :
                      generate1d(step.generator, x) >= h =>
                         \A y \in 0..(h - 1) : Cell(new, w, x, y) = Cell(old, w, x, 0)]_vars

====
